---- MODULE Spec2Model ----
(***************************************************************************)
(* A model of the semantic file system (semanticfs): the path classifier   *)
(* (PathInfo), the datastore mapper (SemanticFS._datastore_path), the      *)
(* semantic folder (Graph, FilesTagsAssociation), the ghost-file write     *)
(* buffer (GhostFile) and the FUSE operation handlers of SemanticFS.       *)
(*                                                                         *)
(* Representation.  A file name is the sequence of its characters, each a  *)
(* one-character string: "_t" is <<"_", "t">>.  A path string is the       *)
(* sequence of the names between its separators, i.e. str.split(os.sep):   *)
(* "/_s/x" is << <<>>, <<"_","s">>, <<"x">> >>, "/" is << <<>>, <<>> >>    *)
(* and the empty string is << <<>> >>.  A byte is a natural number, a file *)
(* content a sequence of bytes.                                            *)
(***************************************************************************)
EXTENDS Integers, Sequences, FiniteSets, TLC

VARIABLES
    fs,        \* the datastore: physical path (names below dsroot) -> inode
    ghosts,    \* SemanticFS._sem_writing_files: key -> GhostFile
    counts,    \* SemanticFS._sem_writing_files_count: key -> reference count
    wfds,      \* SemanticFS._sem_write_descriptors
    fdtab,     \* the host's table of open descriptors: fd -> open file
    ret,       \* the request served last and its reply
    vpath,     \* the path handed to the pure path functions
    semfolder  \* a SemanticFolder object a caller of the classes holds in memory

vars == <<fs, ghosts, counts, wfds, fdtab, ret, vpath, semfolder>>

----------------------------------------------------------------------------
(* Names and path strings *)

\* The empty name: what split() yields before a leading separator.
E == <<>>

SEMANTIC_PREFIX == "_"

DOT == <<".">>

DOTDOT == <<".", ".">>

Last(s) == s[Len(s)]

Front(s) == SubSeq(s, 1, Len(s) - 1)

\* Python's list slice s[a:b] for 0 <= a, with b clipped to the length.
Slice(s, a, b) == SubSeq(s, a + 1, IF b > Len(s) THEN Len(s) ELSE b)

\* os.sep.join(list), as the split list of the string it builds.
Join(l) == IF l = <<>> THEN <<E>> ELSE l

\* str.startswith(os.sep) and os.path.isabs, on the split list.
IsAbs(p) == Len(p) >= 2 /\ p[1] = E

RECURSIVE NormComps(_, _, _)
\* The loop of posixpath.normpath over the components.
NormComps(comps, acc, slashes) ==
    IF comps = <<>> THEN acc
    ELSE LET c == Head(comps) IN
         IF c = E \/ c = DOT THEN NormComps(Tail(comps), acc, slashes)
         ELSE IF c # DOTDOT \/ (slashes = 0 /\ acc = <<>>)
                            \/ (acc # <<>> /\ Last(acc) = DOTDOT)
              THEN NormComps(Tail(comps), Append(acc, c), slashes)
              ELSE IF acc # <<>> THEN NormComps(Tail(comps), Front(acc), slashes)
                   ELSE NormComps(Tail(comps), acc, slashes)

\* The leading separators posixpath.normpath keeps: two of exactly two, else one.
InitialSlashes(p) ==
    IF ~IsAbs(p) THEN 0
    ELSE IF Len(p) >= 3 /\ p[2] = E /\ ~(Len(p) >= 4 /\ p[3] = E) THEN 2
    ELSE 1

\* The last statements of normpath: path = sep*initial_slashes + sep.join(comps),
\* and "path or dot".
NormJoin(slashes, comps) ==
    CASE slashes = 0 -> IF comps = <<>> THEN <<DOT>> ELSE comps
      [] slashes = 1 -> IF comps = <<>> THEN <<E, E>> ELSE <<E>> \o comps
      [] slashes = 2 -> IF comps = <<>> THEN <<E, E, E>> ELSE <<E, E>> \o comps

\* os.path.normcase(os.path.normpath(path)); normcase is the identity on POSIX.
Normpath(p) ==
    IF p = <<E>> THEN <<DOT>>
    ELSE NormJoin(InitialSlashes(p), NormComps(p, <<>>, InitialSlashes(p)))

is_semantic_name(name) == Len(name) >= 1 /\ name[1] = SEMANTIC_PREFIX

\* The index of the first name that is not semantic, where the source takes
\* the last, 0-based.
FirstNonSemanticIdx(comps) ==
    LET S == {i \in 1..Len(comps) : ~is_semantic_name(comps[i])}
    IN  IF S = {} THEN -1 ELSE (CHOOSE i \in S : \A j \in S : i <= j) - 1

\* next((i for i, name in reversed(enumerate(comps)) if not semantic), -1), 0-based.
LastNonSemanticIdx(comps) ==
    LET S == {i \in 1..Len(comps) : ~is_semantic_name(comps[i])}
    IN  IF S = {} THEN -1 ELSE (CHOOSE i \in S : \A j \in S : j <= i) - 1

----------------------------------------------------------------------------
(* PathInfo *)

\* The fields PathInfo.__init__ sets from components = path.split(os.sep).
PathInfoOf(components, n) ==
    IF n >= 1 /\ is_semantic_name(components[n])
    THEN LET idx == LastNonSemanticIdx(components)
         IN  [path |-> components,
              entrypoint |-> Join(Slice(components, 0, idx + 2)),
              tags |-> Slice(components, idx + 2, n),
              tagged_object |-> E]
    ELSE IF n >= 2 /\ is_semantic_name(components[n - 1])
    THEN LET idx == LastNonSemanticIdx(Front(components))
         IN  [path |-> components,
              entrypoint |-> Join(Slice(components, 0, idx + 2)),
              tags |-> Slice(components, idx + 2, n - 1),
              tagged_object |-> components[n]]
    ELSE [path |-> components, entrypoint |-> <<E>>, tags |-> <<>>,
          tagged_object |-> E]

\* self.__path = os.path.normcase(os.path.normpath(path)), then the fields.
PathInfoNormed(components) == PathInfoOf(components, Len(components))

PathInfoFields(path) == PathInfoNormed(Normpath(path))

is_tag(pi) == pi.entrypoint # <<E>> /\ Len(pi.tags) > 0 /\ pi.tagged_object = E

\* An is_entrypoint that does not look at the tags.
IsEntrypointAnyTags(pi) == pi.entrypoint # <<E>> /\ pi.tagged_object = E

is_entrypoint(pi) == pi.entrypoint # <<E>> /\ Len(pi.tags) = 0 /\ pi.tagged_object = E

is_tagged_object(pi) == pi.entrypoint # <<E>> /\ pi.tagged_object # E

is_standard_object(pi) == ~is_entrypoint(pi) /\ ~is_tag(pi) /\ ~is_tagged_object(pi)

Xor(a, b) == a # b

\* The assertion that ends PathInfo.__init__.
PathInfoAssert(pi) ==
    Xor(Xor(Xor(is_tag(pi), is_entrypoint(pi)), is_tagged_object(pi)),
        is_standard_object(pi))

PathInfo(path) == PathInfoFields(path)

----------------------------------------------------------------------------
(* The datastore mapper *)

\* self._dsroot, the directory that backs the file system.
DSROOT == <<E, <<"d", "s">>>>

RECURSIVE CollapseKeepsTags(_, _, _)
\* The loop of a mapper that keeps every component of the path: no tag chain
\* is collapsed.
CollapseKeepsTags(comps, i, tmppath) ==
    IF comps = <<>> THEN tmppath
    ELSE CollapseKeepsTags(Tail(comps), i + 1, Append(tmppath, Head(comps)))

RECURSIVE Collapse(_, _, _)
\* The loop of _datastore_path: i is the 0-based index of Head(comps).
Collapse(comps, i, tmppath) ==
    IF comps = <<>> THEN tmppath
    ELSE LET name == Head(comps)
             n == Len(tmppath)
         IN  IF i = 0 \/ i = 1
             THEN Collapse(Tail(comps), i + 1, Append(tmppath, name))
             ELSE IF is_semantic_name(tmppath[n - 1]) /\ is_semantic_name(tmppath[n])
                  THEN Collapse(Tail(comps), i + 1, Append(Front(tmppath), name))
                  ELSE Collapse(Tail(comps), i + 1, Append(tmppath, name))

\* os.path.join(a, b) for two path strings.
OsPathJoin(a, b) ==
    IF IsAbs(b) THEN b
    ELSE IF Last(a) = E THEN Front(a) \o b
    ELSE a \o b

\* tmppath[1:] when tmppath starts with the separator.
StripSep(tmppath) == IF IsAbs(tmppath) THEN Tail(tmppath) ELSE tmppath

\* _datastore_path: raises ValueError for a relative path, else returns the
\* physical path string.
DatastorePathResult(virtualpath) ==
    IF ~IsAbs(virtualpath) THEN [err |-> "ValueError", path |-> <<E>>]
    ELSE [err |-> "",
          path |-> OsPathJoin(DSROOT,
                       StripSep(Join(Collapse(Normpath(virtualpath), 0, <<>>))))]

DatastorePath(virtualpath) == DatastorePathResult(virtualpath).path

----------------------------------------------------------------------------
(* The host file system below the datastore root *)

\* An inode: a directory, or a regular file holding bytes or a pickled object.
NoVal == [t |-> "none"]

DirNode == [kind |-> "dir", bytes |-> <<>>, val |-> NoVal]

FileNode(bytes) == [kind |-> "file", bytes |-> bytes, val |-> NoVal]

PickleNode(val) == [kind |-> "file", bytes |-> <<>>, val |-> val]

\* A physical path that lies outside the datastore: nothing is there.
OUTSIDE == << <<"/">> >>

NonEmptyName(n) == n # E

\* The key of the inode a physical path string names: its names below dsroot.
Resolve(pathstr) ==
    LET comps == SelectSeq(pathstr, NonEmptyName)
        root == SelectSeq(DSROOT, NonEmptyName)
    IN  IF Len(comps) >= Len(root) /\ SubSeq(comps, 1, Len(root)) = root
        THEN SubSeq(comps, Len(root) + 1, Len(comps))
        ELSE OUTSIDE

\* The physical key of a virtual path.
DsKey(virtualpath) == Resolve(DatastorePath(virtualpath))

IsPrefix(a, b) == Len(a) <= Len(b) /\ SubSeq(b, 1, Len(a)) = a

Lexists(f, k) == k \in DOMAIN f

IsDir(f, k) == k \in DOMAIN f /\ f[k].kind = "dir"

\* os.path.isfile
IsFile(f, k) == k \in DOMAIN f /\ f[k].kind = "file"

\* The error of walking to the directory that holds k: "" when it is a directory.
WalkErr(f, k) ==
    IF k = OUTSIDE THEN "ENOENT"
    ELSE IF k = <<>> THEN ""
    ELSE LET bad == {i \in 0..(Len(k) - 1) : ~IsDir(f, SubSeq(k, 1, i))}
         IN  IF bad = {} THEN ""
             ELSE LET i == CHOOSE j \in bad : \A h \in bad : j <= h
                  IN  IF Lexists(f, SubSeq(k, 1, i)) THEN "ENOTDIR" ELSE "ENOENT"

\* os.listdir of a directory
Listdir(f, k) == {Last(c) : c \in {d \in DOMAIN f : Len(d) = Len(k) + 1 /\ IsPrefix(k, d)}}

Subtree(f, k) == {d \in DOMAIN f : IsPrefix(k, d)}

Without(f, S) == [k \in DOMAIN f \ S |-> f[k]]

Put(f, k, node) == [d \in DOMAIN f \cup {k} |-> IF d = k THEN node ELSE f[d]]

\* The subtree below src, grafted at dst (whatever was below dst is replaced).
Graft(f, src, dst) ==
    LET moved == {<<d, dst \o SubSeq(d, Len(src) + 1, Len(d))>> : d \in Subtree(f, src)}
        base == Without(f, Subtree(f, dst))
        at(k) == CHOOSE m \in moved : m[2] = k
    IN  [k \in DOMAIN base \cup {m[2] : m \in moved} |->
            IF \E m \in moved : m[2] = k THEN f[at(k)[1]] ELSE base[k]]

OsMkdir(f, k) ==
    IF WalkErr(f, k) # "" THEN [fs |-> f, err |-> WalkErr(f, k)]
    ELSE IF Lexists(f, k) THEN [fs |-> f, err |-> "EEXIST"]
    ELSE [fs |-> Put(f, k, DirNode), err |-> ""]

OsMknod(f, k) ==
    IF WalkErr(f, k) # "" THEN [fs |-> f, err |-> WalkErr(f, k)]
    ELSE IF Lexists(f, k) THEN [fs |-> f, err |-> "EEXIST"]
    ELSE [fs |-> Put(f, k, FileNode(<<>>)), err |-> ""]

OsRmdir(f, k) ==
    IF WalkErr(f, k) # "" THEN [fs |-> f, err |-> WalkErr(f, k)]
    ELSE IF ~Lexists(f, k) THEN [fs |-> f, err |-> "ENOENT"]
    ELSE IF ~IsDir(f, k) THEN [fs |-> f, err |-> "ENOTDIR"]
    ELSE IF Listdir(f, k) # {} THEN [fs |-> f, err |-> "ENOTEMPTY"]
    ELSE IF k = <<>> THEN [fs |-> f, err |-> "EBUSY"]
    ELSE [fs |-> Without(f, {k}), err |-> ""]

OsUnlink(f, k) ==
    IF WalkErr(f, k) # "" THEN [fs |-> f, err |-> WalkErr(f, k)]
    ELSE IF ~Lexists(f, k) THEN [fs |-> f, err |-> "ENOENT"]
    ELSE IF IsDir(f, k) THEN [fs |-> f, err |-> "EISDIR"]
    ELSE [fs |-> Without(f, {k}), err |-> ""]

\* os.rename(a, b) of POSIX: an existing file or empty directory at b is replaced.
OsRename(f, a, b) ==
    IF WalkErr(f, a) # "" THEN [fs |-> f, err |-> WalkErr(f, a)]
    ELSE IF ~Lexists(f, a) THEN [fs |-> f, err |-> "ENOENT"]
    ELSE IF WalkErr(f, b) # "" THEN [fs |-> f, err |-> WalkErr(f, b)]
    ELSE IF a = b THEN [fs |-> f, err |-> ""]
    ELSE IF IsPrefix(a, b) THEN [fs |-> f, err |-> "EINVAL"]
    ELSE IF IsPrefix(b, a) THEN [fs |-> f, err |-> "ENOTEMPTY"]
    ELSE IF Lexists(f, b) /\ IsDir(f, a) /\ ~IsDir(f, b) THEN [fs |-> f, err |-> "ENOTDIR"]
    ELSE IF Lexists(f, b) /\ ~IsDir(f, a) /\ IsDir(f, b) THEN [fs |-> f, err |-> "EISDIR"]
    ELSE IF Lexists(f, b) /\ IsDir(f, b) /\ Listdir(f, b) # {}
         THEN [fs |-> f, err |-> "ENOTEMPTY"]
    ELSE [fs |-> Without(Graft(f, a, b), Subtree(f, a)), err |-> ""]

\* shutil.copy2(src, dst) for a regular file src: into dst when dst is a directory.
ShutilCopy2(f, src, dst) ==
    LET target == IF IsDir(f, dst) THEN Append(dst, Last(src)) ELSE dst
    IN  IF WalkErr(f, src) # "" THEN [fs |-> f, err |-> WalkErr(f, src)]
        ELSE IF ~Lexists(f, src) THEN [fs |-> f, err |-> "ENOENT"]
        ELSE IF target = src THEN [fs |-> f, err |-> "SameFileError"]
        ELSE IF WalkErr(f, target) # "" THEN [fs |-> f, err |-> WalkErr(f, target)]
        ELSE IF IsDir(f, target) THEN [fs |-> f, err |-> "EISDIR"]
        ELSE [fs |-> Put(f, target, f[src]), err |-> ""]

\* A copy of a tree into itself: copytree keeps descending into what it has just
\* made until the host stops it.  The requests of the model leave this case out.
SELFCOPY == "copytree into itself"

\* shutil.copytree(src, dst): dst must not exist.
ShutilCopytree(f, src, dst) ==
    IF IsPrefix(src, dst) THEN [fs |-> f, err |-> SELFCOPY]
    ELSE IF WalkErr(f, src) # "" THEN [fs |-> f, err |-> WalkErr(f, src)]
    ELSE IF ~Lexists(f, src) THEN [fs |-> f, err |-> "ENOENT"]
    ELSE IF ~IsDir(f, src) THEN [fs |-> f, err |-> "ENOTDIR"]
    ELSE IF WalkErr(f, dst) # "" THEN [fs |-> f, err |-> WalkErr(f, dst)]
    ELSE IF Lexists(f, dst) THEN [fs |-> f, err |-> "EEXIST"]
    ELSE [fs |-> Graft(f, src, dst), err |-> ""]

----------------------------------------------------------------------------
(* Graph: the tag graph, two dictionaries from node to a set of nodes *)

EmptyMap == [k \in {} |-> {}]

EmptyGraph == [out |-> EmptyMap, in |-> EmptyMap]

\* has_node: [val, err]; the assertion compares the two dictionaries.
has_node(g, name) ==
    IF (name \in DOMAIN g.out) # (name \in DOMAIN g.in)
    THEN [val |-> FALSE, err |-> "AssertionError"]
    ELSE [val |-> name \in DOMAIN g.out, err |-> ""]

\* has_arc: [val, err]; a missing node is a KeyError, unequal views an AssertionError.
has_arc(g, from_node, to_node) ==
    IF from_node \notin DOMAIN g.out \/ to_node \notin DOMAIN g.in
    THEN [val |-> FALSE, err |-> "KeyError"]
    ELSE IF (to_node \in g.out[from_node]) # (from_node \in g.in[to_node])
    THEN [val |-> FALSE, err |-> "AssertionError"]
    ELSE [val |-> to_node \in g.out[from_node], err |-> ""]

RECURSIVE HasPathFrom(_, _, _)
\* The loop of has_path from the 1-based position i.
HasPathFrom(g, nodes, i) ==
    IF i > Len(nodes) THEN [val |-> TRUE, err |-> ""]
    ELSE LET n == has_node(g, nodes[i]) IN
         IF n.err # "" THEN n
         ELSE IF ~n.val THEN [val |-> FALSE, err |-> ""]
         ELSE IF i = 1 THEN HasPathFrom(g, nodes, i + 1)
         ELSE LET a == has_arc(g, nodes[i - 1], nodes[i]) IN
              IF a.err # "" THEN a
              ELSE IF ~a.val THEN [val |-> FALSE, err |-> ""]
              ELSE HasPathFrom(g, nodes, i + 1)

has_path(g, nodes) == HasPathFrom(g, nodes, 1)

add_node(g, name) ==
    IF name \in DOMAIN g.out THEN [g |-> g, err |-> "ValueError"]
    ELSE [g |-> [out |-> Put(g.out, name, {}), in |-> Put(g.in, name, {})], err |-> ""]

remove_node(g, name) ==
    IF has_node(g, name).err # "" THEN [g |-> g, err |-> has_node(g, name).err]
    ELSE IF ~has_node(g, name).val THEN [g |-> g, err |-> "ValueError"]
    ELSE [g |-> [out |-> Without(g.out, {name}), in |-> Without(g.in, {name})], err |-> ""]

\* The dictionary d after d[new] = d.pop(old) and, for every set, discard(old); add(new).
RenameInSets(d, old, new) ==
    [k \in (DOMAIN d \ {old}) \cup {new} |->
        ((IF k = new THEN d[old] ELSE d[k]) \ {old}) \cup {new}]

rename_node(g, old, new) ==
    IF has_node(g, old).err # "" THEN [g |-> g, err |-> has_node(g, old).err]
    ELSE IF ~has_node(g, old).val THEN [g |-> g, err |-> "ValueError"]
    ELSE IF has_node(g, new).err # "" THEN [g |-> g, err |-> has_node(g, new).err]
    ELSE IF has_node(g, new).val THEN [g |-> g, err |-> "ValueError"]
    ELSE [g |-> [out |-> RenameInSets(g.out, old, new),
                 in |-> RenameInSets(g.in, old, new)], err |-> ""]

BothNodes(g, a, b) == has_node(g, a).val /\ has_node(g, b).val

\* An add_arc that draws the arc the other way round.
AddArcReversed(g, from_node, to_node) ==
    IF ~BothNodes(g, from_node, to_node) THEN [g |-> g, err |-> "ValueError"]
    ELSE [g |-> [out |-> [g.out EXCEPT ![to_node] = @ \cup {from_node}],
                 in |-> [g.in EXCEPT ![from_node] = @ \cup {to_node}]], err |-> ""]

add_arc(g, from_node, to_node) ==
    IF ~BothNodes(g, from_node, to_node) THEN [g |-> g, err |-> "ValueError"]
    ELSE [g |-> [out |-> [g.out EXCEPT ![from_node] = @ \cup {to_node}],
                 in |-> [g.in EXCEPT ![to_node] = @ \cup {from_node}]], err |-> ""]

\* A remove_arc that takes the whole node to_node out of the graph.
RemoveArcAndNode(g, from_node, to_node) == remove_node(g, to_node)

\* set.remove raises KeyError when the member is absent.
remove_arc(g, from_node, to_node) ==
    IF ~BothNodes(g, from_node, to_node) THEN [g |-> g, err |-> "ValueError"]
    ELSE IF to_node \notin g.out[from_node] \/ from_node \notin g.in[to_node]
    THEN [g |-> g, err |-> "KeyError"]
    ELSE [g |-> [out |-> [g.out EXCEPT ![from_node] = @ \ {to_node}],
                 in |-> [g.in EXCEPT ![to_node] = @ \ {from_node}]], err |-> ""]

outgoing_arcs(g, node) ==
    IF ~has_node(g, node).val THEN [val |-> {}, err |-> "ValueError"]
    ELSE [val |-> g.out[node], err |-> ""]

----------------------------------------------------------------------------
(* FilesTagsAssociation: a dictionary from file name to its set of tags *)

Range(seq) == {seq[i] : i \in 1..Len(seq)}

\* The members of a str taken as an iterable: its one-character substrings.
CharsOf(name) == {<<name[i]>> : i \in 1..Len(name)}

has_file(files, filename) == filename \in DOMAIN files

add_file(files, filename, tags) ==
    IF filename \in DOMAIN files THEN [files |-> files, err |-> "ValueError"]
    ELSE [files |-> Put(files, filename, tags), err |-> ""]

remove_file(files, filename) ==
    IF filename \notin DOMAIN files THEN [files |-> files, err |-> "ValueError"]
    ELSE [files |-> Without(files, {filename}), err |-> ""]

rename_file(files, old, new) ==
    IF old \notin DOMAIN files THEN [files |-> files, err |-> "ValueError"]
    ELSE IF new \in DOMAIN files THEN [files |-> files, err |-> "ValueError"]
    ELSE [files |-> [k \in (DOMAIN files \ {old}) \cup {new} |->
                        IF k = new THEN files[old] ELSE files[k]], err |-> ""]

assign_tags(files, filename, tags) ==
    IF filename \notin DOMAIN files THEN [files |-> files, err |-> "ValueError"]
    ELSE [files |-> [files EXCEPT ![filename] = @ \cup tags], err |-> ""]

\* A discard_tag that empties the tagset of the file.
DiscardAllTags(files, filename, tag) ==
    IF filename \notin DOMAIN files THEN [files |-> files, err |-> "ValueError"]
    ELSE [files |-> [files EXCEPT ![filename] = {}], err |-> ""]

discard_tag(files, filename, tag) ==
    IF filename \notin DOMAIN files THEN [files |-> files, err |-> "ValueError"]
    ELSE [files |-> [files EXCEPT ![filename] = @ \ {tag}], err |-> ""]

\* rename_tag: for every file, discard(old) then add(new).
rename_tag(files, old, new) == [k \in DOMAIN files |-> (files[k] \ {old}) \cup {new}]

has_tags(files, filename, tags) ==
    IF filename \notin DOMAIN files THEN [val |-> FALSE, err |-> "ValueError"]
    ELSE [val |-> tags \subseteq files[filename], err |-> ""]

\* A tagged_files that does not look at the tags: every file.
TaggedFilesAll(files, tags) == DOMAIN files

\* tagged_files(tags): the files whose tag set is a superset of the iterable tags.
tagged_files(files, tags) == {k \in DOMAIN files : tags \subseteq files[k]}

----------------------------------------------------------------------------
(* SemanticFolder and its two reserved files *)

\* The names of the two reserved files, '_$$_SEMANTIC_FS_GRAPH_FILE_$$' and
\* '_$$_SEMANTIC_FS_ASSOC_FILE_$$', shortened to three characters.
SEMANTIC_FS_GRAPH_FILE_NAME == <<SEMANTIC_PREFIX, "$", "G">>

SEMANTIC_FS_ASSOC_FILE_NAME == <<SEMANTIC_PREFIX, "$", "A">>

\* SemanticFolder(path): an empty graph and an empty association.
NewSemanticFolder(path) ==
    [path |-> path, graph |-> EmptyGraph, files |-> EmptyMap]

\* Graph.serialize and FilesTagsAssociation.serialize: the pickled object.
SerializeGraph(g) == [t |-> "list", items |-> <<g.out, g.in>>]

SerializeAssoc(files) == [t |-> "dict", items |-> files]

\* open(name, 'rb') and read: [val, err].
ReadPickle(f, k) ==
    IF WalkErr(f, k) # "" THEN [val |-> NoVal, err |-> WalkErr(f, k)]
    ELSE IF ~Lexists(f, k) THEN [val |-> NoVal, err |-> "ENOENT"]
    ELSE IF IsDir(f, k) THEN [val |-> NoVal, err |-> "EISDIR"]
    ELSE IF f[k].val.t = "none" THEN [val |-> NoVal, err |-> "UnpicklingError"]
    ELSE [val |-> f[k].val, err |-> ""]

\* SemanticFolder.from_filename(graph_file, assoc_file, path), g and a being what
\* the two files hold: [sf, err].
FromFilename(path, g, a) ==
    IF g.err # "" THEN [sf |-> NewSemanticFolder(path), err |-> g.err]
    ELSE IF ~(g.val.t = "list" /\ Len(g.val.items) = 2)
         THEN [sf |-> NewSemanticFolder(path), err |-> "ValueError"]
    ELSE IF a.err # "" THEN [sf |-> NewSemanticFolder(path), err |-> a.err]
    ELSE IF a.val.t # "dict" THEN [sf |-> NewSemanticFolder(path), err |-> "ValueError"]
    ELSE [sf |-> [path |-> path,
                  graph |-> [out |-> g.val.items[1], in |-> g.val.items[2]],
                  files |-> a.val.items], err |-> ""]

\* The body of _get_semantic_folder, storedir = self._datastore_path(path).
GetSemanticFolderIn(f, path, storedir) ==
    IF storedir = OUTSIDE THEN [sf |-> NewSemanticFolder(path), err |-> "ENOENT"]
    ELSE FromFilename(path,
                      ReadPickle(f, Append(storedir, SEMANTIC_FS_GRAPH_FILE_NAME)),
                      ReadPickle(f, Append(storedir, SEMANTIC_FS_ASSOC_FILE_NAME)))

\* _get_semantic_folder(path) with SemanticFolder.from_filename: [sf, err].
GetSemanticFolder(f, path) == GetSemanticFolderIn(f, path, DsKey(path))

\* open(name, 'wb') and write: [fs, err].
WritePickle(f, k, val) ==
    IF WalkErr(f, k) # "" THEN [fs |-> f, err |-> WalkErr(f, k)]
    ELSE IF IsDir(f, k) THEN [fs |-> f, err |-> "EISDIR"]
    ELSE [fs |-> Put(f, k, PickleNode(val)), err |-> ""]

\* SemanticFolder.to_filename after its first file, whose writing gave w1.
ToAssocFile(w1, storedir, sf) ==
    IF w1.err # "" THEN w1
    ELSE WritePickle(w1.fs, Append(storedir, SEMANTIC_FS_ASSOC_FILE_NAME),
                     SerializeAssoc(sf.files))

\* The body of _save_semantic_folder, storedir = self._datastore_path(semfolder.path).
SaveSemanticFolderIn(f, sf, storedir) ==
    IF storedir = OUTSIDE THEN [fs |-> f, err |-> "ENOENT"]
    ELSE ToAssocFile(WritePickle(f, Append(storedir, SEMANTIC_FS_GRAPH_FILE_NAME),
                                 SerializeGraph(sf.graph)), storedir, sf)

\* _save_semantic_folder(semfolder) with SemanticFolder.to_filename: [fs, err].
SaveSemanticFolder(f, sf) == SaveSemanticFolderIn(f, sf, DsKey(sf.path))

----------------------------------------------------------------------------
(* Bytes of a regular file, and the IntervalTree of half-open intervals *)

Min(a, b) == IF a < b THEN a ELSE b

Max(a, b) == IF a > b THEN a ELSE b

Zeros(n) == [i \in 1..n |-> 0]

\* os.lseek(fh, off) and os.write(fh, buf): a write past the end leaves a hole of
\* zero bytes; an empty buf writes nothing.
PWrite(bytes, off, buf) ==
    IF buf = <<>> THEN bytes
    ELSE [i \in 1..Max(Len(bytes), off + Len(buf)) |->
            IF i > off /\ i <= off + Len(buf) THEN buf[i - off]
            ELSE IF i <= Len(bytes) THEN bytes[i] ELSE 0]

\* os.ftruncate(fh, n)
Ftruncate(bytes, n) == [i \in 1..n |-> IF i <= Len(bytes) THEN bytes[i] ELSE 0]

\* os.lseek(fh, off) and os.read(fh, n): short at the end of the file.
PRead(bytes, off, n) == SubSeq(bytes, off + 1, Min(off + n, Len(bytes)))

\* tree[p]: the intervals that contain the point p.
TreeAt(tree, p) == {iv \in tree : iv[1] <= p /\ p < iv[2]}

\* tree[a:b]: the intervals that overlap [a, b).
TreeOverlap(tree, a, b) == {iv \in tree : iv[1] < b /\ iv[2] > a}

\* tree.slice(p): every interval that p cuts becomes two.
TreeSlice(tree, p) ==
    LET hits == {iv \in TreeAt(tree, p) : iv[1] < p}
    IN  (tree \ hits) \cup {<<iv[1], p>> : iv \in hits} \cup {<<p, iv[2]>> : iv \in hits}

\* tree.chop(a, b): [a, b) is cut out of every interval.
TreeChop(tree, a, b) ==
    {<<iv[1], Min(iv[2], a)>> : iv \in {jv \in tree : jv[1] < a}}
        \cup {<<Max(iv[1], b), iv[2]>> : iv \in {jv \in tree : jv[2] > b}}

\* tree.end(): 0 for the empty tree.
TreeEnd(tree) ==
    IF tree = {} THEN 0 ELSE CHOOSE e \in {iv[2] : iv \in tree} : \A iv \in tree : iv[2] <= e

RECURSIVE MergeOverlaps(_)
\* tree.merge_overlaps(): intervals that share a point become one.
MergeOverlaps(tree) ==
    LET pairs == {p \in tree \X tree : p[1] # p[2] /\ p[1][1] < p[2][2] /\ p[2][1] < p[1][2]}
    IN  IF pairs = {} THEN tree
        ELSE LET p == CHOOSE q \in pairs : TRUE
             IN  MergeOverlaps((tree \ {p[1], p[2]})
                    \cup {<<Min(p[1][1], p[2][1]), Max(p[1][2], p[2][2])>>})

\* IntervalTree([Interval(0, filesize)] if filesize > 0 else None)
WholeTree(filesize) == IF filesize > 0 THEN {<<0, filesize>>} ELSE {}

\* The enumerations of a set: iterating an IntervalTree iterates a Python set,
\* whose order the language leaves open.
Orders(S) ==
    {ord \in [1..Cardinality(S) -> S] : \A i, j \in 1..Cardinality(S) : i # j => ord[i] # ord[j]}

\* sorted(intervals)
RECURSIVE Sorted(_)
Sorted(S) ==
    IF S = {} THEN <<>>
    ELSE LET m == CHOOSE iv \in S : \A jv \in S :
                     iv[1] < jv[1] \/ (iv[1] = jv[1] /\ iv[2] <= jv[2])
         IN  <<m>> \o Sorted(S \ {m})

----------------------------------------------------------------------------
(* GhostFile: [filesize, tree] over the bytes of the file at its data path *)

\* GhostFile(datapath): getsize, or 0 when the file is missing.
NewGhostFile(f, k) ==
    LET size == IF Lexists(f, k) THEN Len(f[k].bytes) ELSE 0
    IN  [filesize |-> size, tree |-> WholeTree(size)]

\* The end of GhostFile.truncate: the size is set, the assertion checked.
GhostTruncated(length, tree) ==
    [g |-> [filesize |-> length, tree |-> tree],
     err |-> IF length >= TreeEnd(tree) THEN "" ELSE "AssertionError"]

\* GhostFile.truncate(length): [g, err].
GhostTruncate(g, length) ==
    GhostTruncated(length,
        IF length > 0 THEN TreeOverlap(TreeSlice(g.tree, length), 0, length) ELSE {})

\* An add that neither merges with its neighbours nor chops what it covers.
OptimizedAddPlain(tree, start, end) == [tree |-> tree \cup {<<start, end>>}, err |-> ""]

\* _optimized_add_to_intervaltree(tree, start, end): [tree, err].
OptimizedAdd(tree, start, end) ==
    LET prev == TreeAt(tree, start - 1)
        next == TreeAt(tree, end)
        chop_from == IF prev # {} THEN (CHOOSE iv \in prev : TRUE)[1] ELSE start
        chop_to == IF next # {} THEN (CHOOSE iv \in next : TRUE)[2] ELSE end
    IN  IF Cardinality(prev) > 1 \/ Cardinality(next) > 1
        THEN [tree |-> tree, err |-> "AssertionError"]
        ELSE [tree |-> TreeChop(tree, chop_from, chop_to) \cup {<<chop_from, chop_to>>},
              err |-> ""]

RECURSIVE FlushLoop(_, _, _, _)
\* The loop of _write_tree_to_real_file from position i of the enumeration ord:
\* [bytes, end_prev_interval].
FlushLoop(bytes, ord, i, end_prev) ==
    IF i > Len(ord) THEN [bytes |-> bytes, end_prev |-> end_prev]
    ELSE FlushLoop(PWrite(bytes, end_prev, Zeros(ord[i][1] - end_prev)), ord, i + 1, ord[i][2])

\* What follows the loop l of _write_tree_to_real_file: the gap up to the file size.
FlushFill(g, l) == PWrite(l.bytes, l.end_prev, Zeros(g.filesize - l.end_prev))

FlushEnd(g, filled) ==
    IF g.filesize < TreeEnd(g.tree) THEN [bytes |-> filled, err |-> "AssertionError"]
    ELSE [bytes |-> Ftruncate(filled, g.filesize), err |-> ""]

\* _write_tree_to_real_file(fh) with the tree enumerated as ord: [bytes, err].
WriteTreeToRealFile(g, bytes, ord) ==
    FlushEnd(g, FlushFill(g, FlushLoop(bytes, ord, 1, 0)))

\* A comparison that never finds the data equal: every write goes to the file.
IsSameDataNever(bytes, buf, offset) == FALSE

\* _is_same_data(buf, offset): the reader returns the current bytes of the file.
IsSameData(bytes, buf, offset) == PRead(bytes, offset, Len(buf)) = buf

\* The branch of GhostFile.write that leaves the file alone.
TakesSameDataPath(bytes, buf, offset) ==
    offset + Len(buf) <= Len(bytes) /\ IsSameData(bytes, buf, offset)

\* The ghost after the two statements that open both branches of GhostFile.write.
GhostAfterAdd(g, buf, offset) ==
    [filesize |-> Max(g.filesize, offset + Len(buf)),
     tree |-> OptimizedAdd(g.tree, offset, offset + Len(buf)).tree]

\* The end of the writing branch: os.write, then the tree of the whole file.
GhostWritten(written) ==
    [g |-> [filesize |-> Len(written), tree |-> WholeTree(Len(written))],
     bytes |-> written, err |-> ""]

\* The writing branch of GhostFile.write after its flush w.
GhostWriteThrough(g1, w, buf, offset) ==
    IF w.err # "" THEN [g |-> g1, bytes |-> w.bytes, err |-> w.err]
    ELSE GhostWritten(PWrite(w.bytes, offset, buf))

\* GhostFile.write after _optimized_add_to_intervaltree, which gave a and left
\* the ghost g1.
GhostWriteAdded(g, g1, a, bytes, buf, offset, ord) ==
    IF a.err # "" THEN [g |-> g, bytes |-> bytes, err |-> a.err]
    ELSE IF TakesSameDataPath(bytes, buf, offset)
    THEN [g |-> g1, bytes |-> bytes,
          err |-> IF g1.filesize = TreeEnd(g1.tree) THEN "" ELSE "AssertionError"]
    ELSE GhostWriteThrough(g1, WriteTreeToRealFile(g1, bytes, ord), buf, offset)

\* GhostFile.write(buf, offset, fh) with the flush enumerating ord: [g, bytes, err].
GhostWrite(g, bytes, buf, offset, ord) ==
    GhostWriteAdded(g, GhostAfterAdd(g, buf, offset),
                    OptimizedAdd(g.tree, offset, offset + Len(buf)),
                    bytes, buf, offset, ord)

RECURSIVE ReadLoop(_, _, _, _, _)
\* The loop of GhostFile.read over the sorted intervals: the data read so far.
ReadLoop(bytes, intervals, i, end_prev, data) ==
    IF i > Len(intervals) THEN data
    ELSE ReadLoop(bytes, intervals, i + 1, intervals[i][2],
                  data \o Zeros(intervals[i][1] - end_prev)
                       \o PRead(bytes, intervals[i][1], intervals[i][2] - intervals[i][1]))

\* The end of GhostFile.read: the data clipped to the file size, the assertions.
GhostReadClipped(g, clipped, length, offset) ==
    IF Len(clipped) > length \/ offset + Len(clipped) > g.filesize
    THEN [data |-> clipped, err |-> "AssertionError"]
    ELSE [data |-> clipped, err |-> ""]

GhostReadData(g, data, length, offset) ==
    GhostReadClipped(g, IF offset + length > g.filesize
                        THEN Slice(data, 0, g.filesize - offset) ELSE data,
                     length, offset)

\* GhostFile.read over its sorted intervals.
GhostReadIntervals(g, bytes, intervals, length, offset) ==
    IF intervals = <<>>
    THEN [data |-> Zeros(Min(length, g.filesize - offset)), err |-> ""]
    ELSE GhostReadData(g, ReadLoop(bytes, intervals, 1, offset, <<>>)
                              \o Zeros(offset + length - intervals[Len(intervals)][2]),
                       length, offset)

\* The intervals of the read: merged, sliced at both ends, sorted.
ReadIntervals(tree, length, offset) ==
    Sorted(TreeOverlap(
        TreeSlice(TreeSlice(MergeOverlaps(TreeOverlap(tree, offset, offset + length)),
                            offset), offset + length),
        offset, offset + length))

\* A read that hands out the bytes of the physical file, whatever the ghost holds.
GhostReadPhysical(g, bytes, length, offset) ==
    [data |-> PRead(bytes, offset, length), err |-> ""]

\* GhostFile.read(length, offset, fh): [data, err].
GhostRead(g, bytes, length, offset) ==
    IF offset >= g.filesize \/ length = 0 THEN [data |-> <<>>, err |-> ""]
    ELSE GhostReadIntervals(g, bytes, ReadIntervals(g.tree, length, offset),
                            length, offset)

\* GhostFile.apply after its flush w.
GhostApplied(g, w) ==
    IF w.err # "" THEN [g |-> g, bytes |-> w.bytes, err |-> w.err]
    ELSE [g |-> [filesize |-> g.filesize, tree |-> WholeTree(g.filesize)],
          bytes |-> w.bytes, err |-> ""]

\* GhostFile.apply(fh) with the flush enumerating ord: [g, bytes, err].
GhostApply(g, bytes, ord) == GhostApplied(g, WriteTreeToRealFile(g, bytes, ord))

----------------------------------------------------------------------------
(* SemanticFS: the ghost table.  A world w is the record of the datastore and
   of the three tables: [fs, ghosts, counts, wfds, fdtab]. *)

\* A _add_ghost_file key that forgets the virtual path.
GhostKeyOfFile(ghost_path) == <<DatastorePath(ghost_path), DatastorePath(ghost_path)>>

\* The key (dspath, normpath) of _sem_writing_files.
GhostKey(ghost_path) == <<DatastorePath(ghost_path), Normpath(ghost_path)>>

\* The body of _has_ghost_file for the key k.
HasGhostFileAt(w, k) ==
    IF (k \in DOMAIN w.ghosts) # (k \in DOMAIN w.counts /\ w.counts[k] > 0)
    THEN [val |-> FALSE, err |-> "AssertionError"]
    ELSE [val |-> k \in DOMAIN w.ghosts, err |-> ""]

\* _has_ghost_file: [val, err].
HasGhostFile(w, ghost_path) == HasGhostFileAt(w, GhostKey(ghost_path))

\* The body of _add_ghost_file for the key k.
AddGhostFileAt(w, k) ==
    IF k \in DOMAIN w.ghosts
    THEN IF k \notin DOMAIN w.counts THEN [w |-> w, err |-> "KeyError"]
         ELSE IF ~(w.counts[k] > 0) THEN [w |-> w, err |-> "AssertionError"]
         ELSE [w |-> [w EXCEPT !.counts = Put(w.counts, k, w.counts[k] + 1)], err |-> ""]
    ELSE IF k \in DOMAIN w.counts THEN [w |-> w, err |-> "AssertionError"]
         ELSE [w |-> [w EXCEPT !.ghosts = Put(w.ghosts, k, NewGhostFile(w.fs, Resolve(k[1]))),
                               !.counts = Put(w.counts, k, 1)], err |-> ""]

\* An _add_ghost_file that makes a new GhostFile with the count 1 every time.
AddGhostFileOnce(w, ghost_path) ==
    [w |-> [w EXCEPT !.ghosts = Put(w.ghosts, GhostKey(ghost_path),
                                    NewGhostFile(w.fs, DsKey(ghost_path))),
                     !.counts = Put(w.counts, GhostKey(ghost_path), 1)],
     err |-> ""]

\* _add_ghost_file: [w, err].
AddGhostFile(w, ghost_path) == AddGhostFileAt(w, GhostKey(ghost_path))

\* A _delete_ghost_file that takes one off the count and keeps the ghost.
DeleteGhostFileKeeps(w, k) ==
    IF k \notin DOMAIN w.ghosts \/ k \notin DOMAIN w.counts THEN [w |-> w, err |-> "KeyError"]
    ELSE [w |-> [w EXCEPT !.counts = Put(w.counts, k, w.counts[k] - 1)], err |-> ""]

\* The body of _delete_ghost_file for the key k.
DeleteGhostFileAt(w, k) ==
    IF k \notin DOMAIN w.ghosts \/ k \notin DOMAIN w.counts THEN [w |-> w, err |-> "KeyError"]
    ELSE IF w.counts[k] - 1 = 0
    THEN [w |-> [w EXCEPT !.ghosts = Without(w.ghosts, {k}),
                          !.counts = Without(w.counts, {k})], err |-> ""]
    ELSE [w |-> [w EXCEPT !.counts = Put(w.counts, k, w.counts[k] - 1)], err |-> ""]

\* _delete_ghost_file: [w, err].
DeleteGhostFile(w, ghost_path) == DeleteGhostFileAt(w, GhostKey(ghost_path))

\* The bytes of the regular file behind a descriptor or a physical path.
BytesAt(w, k) == IF IsFile(w.fs, k) THEN w.fs[k].bytes ELSE <<>>

SetBytes(w, k, bytes) ==
    IF IsFile(w.fs, k) THEN [w EXCEPT !.fs = Put(w.fs, k, FileNode(bytes))] ELSE w

SetGhost(w, ghost_path, g) == [w EXCEPT !.ghosts = Put(w.ghosts, GhostKey(ghost_path), g)]

\* The descriptor os.open returns: the lowest number not in use.
NewFd(w) == CHOOSE fd \in 1..(Cardinality(DOMAIN w.fdtab) + 1) :
                fd \notin DOMAIN w.fdtab /\ \A h \in 1..(fd - 1) : h \in DOMAIN w.fdtab

\* The failure of os.open(dspath, flags) on an existing path or with O_CREAT.
OsOpenErr(f, k, writing, creat) ==
    IF WalkErr(f, k) # "" THEN WalkErr(f, k)
    ELSE IF ~Lexists(f, k) THEN (IF creat THEN "" ELSE "ENOENT")
    ELSE IF IsDir(f, k) /\ writing THEN "EISDIR"
    ELSE ""

----------------------------------------------------------------------------
(* SemanticFS: the file methods.  Each returns [w, err, val]. *)

Fail(w, e) == [w |-> w, err |-> e, val |-> <<>>]

Done(w, v) == [w |-> w, err |-> "", val |-> v]

\* open after os.open gave the descriptor f, which leaves the world w1: the
\* ghost of a tagged object opened for writing.
OpenGhost(a, f) == IF a.err # "" THEN Fail(a.w, a.err) ELSE Done(a.w, <<f>>)

OpenTracked(w, w1, path, writing, f) ==
    IF ~(writing /\ is_tagged_object(PathInfo(path))) THEN Done(w1, <<f>>)
    ELSE IF f \in w.wfds THEN Fail(w1, "AssertionError")
    ELSE OpenGhost(AddGhostFile([w1 EXCEPT !.wfds = @ \cup {f}], path), f)

\* open with dspath = k, os.open failing with e or returning f.
OpenAt(w, path, writing, k, f, e) ==
    IF e # "" THEN Fail(w, e)
    ELSE OpenTracked(w, [w EXCEPT !.fdtab = Put(w.fdtab, f,
                             [path |-> path, key |-> k, writing |-> writing])],
                     path, writing, f)

\* open(path, flags); writing stands for flags & (O_WRONLY | O_RDWR) != 0.
Open(w, path, writing) ==
    OpenAt(w, path, writing, DsKey(path), NewFd(w),
           OsOpenErr(w.fs, DsKey(path), writing, FALSE))

\* read with h = self._has_ghost_file(path), bytes the file behind fh.
ReadWith(w, h, path, bytes, length, offset) ==
    IF h.err # "" THEN Fail(w, h.err)
    ELSE IF h.val
    THEN [w |-> w,
          err |-> GhostRead(w.ghosts[GhostKey(path)], bytes, length, offset).err,
          val |-> GhostRead(w.ghosts[GhostKey(path)], bytes, length, offset).data]
    ELSE Done(w, PRead(bytes, offset, length))

\* read(path, length, offset, fh)
Read(w, path, length, offset, fh) ==
    ReadWith(w, HasGhostFile(w, path), path, BytesAt(w, w.fdtab[fh].key), length, offset)

\* write through the ghost: r is what GhostFile.write gave, w1 the world it left.
WriteGhost(w1, r, buf) ==
    IF r.err # "" THEN Fail(w1, r.err) ELSE Done(w1, <<Len(buf)>>)

WriteVia(w, path, k, r, buf) ==
    WriteGhost(SetGhost(SetBytes(w, k, r.bytes), path, r.g), r, buf)

\* write with h = self._has_ghost_file(path), bytes the file behind fh, at key k.
WriteWith(w, h, path, k, bytes, buf, offset, ord) ==
    IF h.err # "" THEN Fail(w, h.err)
    ELSE IF h.val
    THEN WriteVia(w, path, k,
                  GhostWrite(w.ghosts[GhostKey(path)], bytes, buf, offset, ord), buf)
    ELSE Done(SetBytes(w, k, PWrite(bytes, offset, buf)), <<Len(buf)>>)

\* write(path, buf, offset, fh), the flush of the ghost enumerating ord.
Write(w, path, buf, offset, fh, ord) ==
    WriteWith(w, HasGhostFile(w, path), path, w.fdtab[fh].key,
              BytesAt(w, w.fdtab[fh].key), buf, offset, ord)

\* truncate of a ghost: r is what GhostFile.truncate gave.
TruncateGhost(w, path, r) ==
    IF r.err # "" THEN Fail(SetGhost(w, path, r.g), r.err)
    ELSE Done(SetGhost(w, path, r.g), <<>>)

\* truncate of the file at k: open(dspath, 'r+') failing with e, or f.truncate.
TruncateFile(w, k, length, e) ==
    IF e # "" THEN Fail(w, e)
    ELSE Done(SetBytes(w, k, Ftruncate(BytesAt(w, k), length)), <<>>)

\* A truncate that never looks for a ghost: it always cuts the file itself.
TruncateOnDisk(w, h, path, k, length) ==
    TruncateFile(w, k, length, OsOpenErr(w.fs, k, TRUE, FALSE))

TruncateWith(w, h, path, k, length) ==
    IF h.err # "" THEN Fail(w, h.err)
    ELSE IF h.val
    THEN TruncateGhost(w, path, GhostTruncate(w.ghosts[GhostKey(path)], length))
    ELSE TruncateFile(w, k, length, OsOpenErr(w.fs, k, TRUE, FALSE))

\* truncate(path, length, fh=None)
Truncate(w, path, length) ==
    TruncateWith(w, HasGhostFile(w, path), path, DsKey(path), length)

\* The world without the descriptor fh: os.close(fh).
Closed(w, fh) == [w EXCEPT !.fdtab = Without(w.fdtab, {fh})]

\* release after _delete_ghost_file, which gave d.
ReleaseDeleted(d, fh) ==
    IF d.err # "" THEN Fail(d.w, d.err)
    ELSE Done(Closed([d.w EXCEPT !.wfds = @ \ {fh}], fh), <<>>)

\* release after GhostFile.apply, which gave r and left the world w1.
ReleaseApplied(w1, path, fh, r) ==
    IF r.err # "" THEN Fail(w1, r.err)
    ELSE ReleaseDeleted(DeleteGhostFile(w1, path), fh)

ReleaseVia(w, path, fh, k, r) ==
    ReleaseApplied(SetGhost(SetBytes(w, k, r.bytes), path, r.g), path, fh, r)

ReleaseWith(w, h, path, fh, k, ord) ==
    IF fh \notin w.wfds THEN Done(Closed(w, fh), <<>>)
    ELSE IF h.err # "" THEN Fail(w, h.err)
    ELSE IF ~(h.val /\ is_tagged_object(PathInfo(path))) THEN Fail(w, "AssertionError")
    ELSE ReleaseVia(w, path, fh, k,
                    GhostApply(w.ghosts[GhostKey(path)], BytesAt(w, k), ord))

\* release(path, fh), the flush of the ghost enumerating ord.
Release(w, path, fh, ord) ==
    ReleaseWith(w, HasGhostFile(w, path), path, fh, w.fdtab[fh].key, ord)

----------------------------------------------------------------------------
(* SemanticFS: existence of a virtual path, reserved names, getattr *)

\* str.lower() on the characters that occur in the reserved names.
LowerChar(c) == IF c = "G" THEN "g" ELSE IF c = "A" THEN "a" ELSE c

LowerName(name) == [i \in 1..Len(name) |-> LowerChar(name[i])]

LowerPath(p) == [i \in 1..Len(p) |-> LowerName(p[i])]

\* a + b for two strings, on their split lists.
StrCat(a, b) == Front(a) \o <<Last(a) \o Head(b)>> \o Tail(b)

\* The test of _is_reserved_name on lowername.
IsReservedNormed(lowername) ==
    /\ Len(lowername) >= 2
    /\ Last(lowername) \in {LowerName(SEMANTIC_FS_GRAPH_FILE_NAME),
                            LowerName(SEMANTIC_FS_ASSOC_FILE_NAME)}

\* A test that takes no name for reserved.
IsReservedNever(name) == FALSE

\* _is_reserved_name(name)
IsReservedName(name) ==
    IsReservedNormed(Normpath(StrCat(<<E, E>>, LowerPath(name))))

\* os.path.basename(path), as a path string.
Basename(path) == <<Last(path)>>

RECURSIVE EndpointsFrom(_, _)
\* semantic_endpoints of _exists, built from the 1-based position j on.
EndpointsFrom(components, j) ==
    IF j > Len(components)
    THEN IF is_semantic_name(Last(components)) THEN <<components>> ELSE <<>>
    ELSE IF is_semantic_name(components[j - 1]) /\ ~is_semantic_name(components[j])
         THEN <<SubSeq(components, 1, j)>> \o EndpointsFrom(components, j + 1)
         ELSE EndpointsFrom(components, j + 1)

SemanticEndpoints(path) == EndpointsFrom(Normpath(path), 2)

\* The three tests of a turn of the loop of _exists on the loaded folder sf,
\* hp being folder.graph.has_path(pathinfo.tags).
CheckFolder(pathinfo, sf, hp) ==
    IF is_tagged_object(pathinfo) /\ ~has_file(sf.files, pathinfo.tagged_object)
    THEN [val |-> FALSE, err |-> ""]
    ELSE IF hp.err # "" THEN hp
    ELSE IF ~hp.val THEN [val |-> FALSE, err |-> ""]
    ELSE IF is_tagged_object(pathinfo)
            /\ ~has_tags(sf.files, pathinfo.tagged_object, Range(pathinfo.tags)).val
    THEN [val |-> FALSE, err |-> ""]
    ELSE [val |-> TRUE, err |-> ""]

\* A turn of the loop with l what _get_semantic_folder gave.
CheckLoaded(pathinfo, l) ==
    IF ~(is_tag(pathinfo) \/ is_tagged_object(pathinfo) \/ is_entrypoint(pathinfo))
    THEN [val |-> FALSE, err |-> "AssertionError"]
    ELSE IF l.err = "ENOENT" THEN [val |-> FALSE, err |-> ""]
    ELSE IF l.err # "" THEN [val |-> FALSE, err |-> l.err]
    ELSE CheckFolder(pathinfo, l.sf, has_path(l.sf.graph, pathinfo.tags))

CheckPathInfo(f, pathinfo) ==
    CheckLoaded(pathinfo, GetSemanticFolder(f, pathinfo.entrypoint))

\* One turn of the loop of _exists: [val, err]; val is FALSE for "return False".
CheckEndpoint(f, subpath) == CheckPathInfo(f, PathInfo(subpath))

RECURSIVE ExistsLoop(_, _, _)
\* The loop of _exists after the turn i, which gave c.
ExistsNext(f, endpoints, i, c) ==
    IF c.err # "" \/ ~c.val THEN c ELSE ExistsLoop(f, endpoints, i + 1)

ExistsLoop(f, endpoints, i) ==
    IF i > Len(endpoints) THEN [val |-> TRUE, err |-> ""]
    ELSE ExistsNext(f, endpoints, i, CheckEndpoint(f, endpoints[i]))

\* The last statement of _exists, l being what its loop gave.
ExistsAfter(f, path, l) ==
    IF l.err # "" \/ ~l.val THEN l
    ELSE [val |-> Lexists(f, DsKey(path)), err |-> ""]

\* _exists(path): [val, err].
Exists(f, path) == ExistsAfter(f, path, ExistsLoop(f, SemanticEndpoints(path), 1))

\* The reply of getattr for the inode at k, h = self._has_ghost_file(path).
GetattrStat(w, path, k, h) ==
    IF h.err # "" THEN Fail(w, h.err)
    ELSE Done(w, [kind |-> w.fs[k].kind,
                  size |-> IF h.val THEN w.ghosts[GhostKey(path)].filesize
                           ELSE Len(w.fs[k].bytes)])

\* getattr with x = self._exists(path).
GetattrOf(w, path, x) ==
    IF IsReservedName(path) THEN Fail(w, "EINVAL")
    ELSE IF x.err # "" THEN Fail(w, x.err)
    ELSE IF ~x.val THEN Fail(w, "ENOENT")
    ELSE GetattrStat(w, path, DsKey(path), HasGhostFile(w, path))

\* getattr(path): val is [kind, size], the st_mode and st_size of the reply.
Getattr(w, path) == GetattrOf(w, path, Exists(w.fs, path))

----------------------------------------------------------------------------
(* SemanticFS: readdir.  The reply is [val, err], val the set of the names
   the generator yields; their order is that of the sets and dictionaries the
   names are taken from. *)

\* A filter that removes the reserved names alone.
ReaddirFilteredReserved(pathinfo, dirents) ==
    IF dirents.err # "" THEN dirents
    ELSE [val |-> {x \in dirents.val : ~IsReservedName(<<x>>)}, err |-> ""]

\* The list comprehension that ends the branch of an existing directory.
ReaddirFiltered(pathinfo, dirents) ==
    IF dirents.err # "" THEN dirents
    ELSE [val |-> {x \in dirents.val :
                      ~IsReservedName(<<x>>) /\ x \notin Range(pathinfo.tags)},
          err |-> ""]

\* The two extends of the tag branch, oa being what outgoing_arcs gave.
ReaddirTagArcs(pathinfo, sf, oa) ==
    IF oa.err # "" THEN oa
    ELSE [val |-> oa.val \cup tagged_files(sf.files, Range(pathinfo.tags)),
          err |-> ""]

\* The tag branch, l being what _get_semantic_folder gave.
ReaddirTag(pathinfo, l) ==
    IF l.err # "" THEN [val |-> {}, err |-> l.err]
    ELSE ReaddirTagArcs(pathinfo, l.sf,
                        outgoing_arcs(l.sf.graph, Last(pathinfo.tags)))

ReaddirDirents(f, storepath, pathinfo) ==
    IF is_tag(pathinfo)
    THEN ReaddirTag(pathinfo, GetSemanticFolder(f, pathinfo.entrypoint))
    ELSE [val |-> Listdir(f, storepath), err |-> ""]

ReaddirAt(f, path, storepath) ==
    IF IsDir(f, storepath)
    THEN ReaddirFiltered(PathInfo(path), ReaddirDirents(f, storepath, PathInfo(path)))
    ELSE [val |-> {}, err |-> ""]

\* The loop "for r in ['.', '..'] + dirents: yield r".
ReaddirYield(dirents) ==
    IF dirents.err # "" THEN dirents
    ELSE [val |-> {DOT, DOTDOT} \cup dirents.val, err |-> ""]

\* readdir(path, fh)
Readdir(f, path) == ReaddirYield(ReaddirAt(f, path, DsKey(path)))

----------------------------------------------------------------------------
(* SemanticFS: mknod, mkdir, rmdir, unlink.  Each returns [fs, err]: the
   datastore the handler leaves behind, also when it raises. *)

Raise(f, e) == [fs |-> f, err |-> e]

\* has_file / assign_tags / add_file, the tagging shared by mknod, mkdir and create.
AssignOrAdd(files, name, tags) ==
    IF has_file(files, name) THEN assign_tags(files, name, tags)
    ELSE add_file(files, name, tags)

\* The semantic folder sf with its association replaced.
WithFiles(sf, files) == [sf EXCEPT !.files = files]

WithGraph(sf, g) == [sf EXCEPT !.graph = g]

\* self._save_semantic_folder(semfolder) after a call on semfolder.filetags that
\* gave r; nothing is saved when the call raised.
SaveFiles(f, sf, r) ==
    IF r.err # "" THEN Raise(f, r.err) ELSE SaveSemanticFolder(f, WithFiles(sf, r.files))

\* The same after a call on semfolder.graph.
SaveGraph(f, sf, r) ==
    IF r.err # "" THEN Raise(f, r.err) ELSE SaveSemanticFolder(f, WithGraph(sf, r.g))

\* The tagging that ends mknod and create, l being what _get_semantic_folder gave.
TagLoaded(f, pathinfo, l) ==
    IF l.err # "" THEN Raise(f, l.err)
    ELSE SaveFiles(f, l.sf,
                   AssignOrAdd(l.sf.files, pathinfo.tagged_object, Range(pathinfo.tags)))

TagObject(f, pathinfo) == TagLoaded(f, pathinfo, GetSemanticFolder(f, pathinfo.entrypoint))

\* mknod after os.mknod, which gave m.
MknodMade(pathinfo, m) ==
    IF m.err # "" THEN m
    ELSE IF ~(is_tagged_object(pathinfo) \/ is_standard_object(pathinfo))
    THEN Raise(m.fs, "ENOTSUP")
    ELSE IF ~is_tagged_object(pathinfo) THEN m
    ELSE TagObject(m.fs, pathinfo)

\* mknod(path, mode, dev)
Mknod(f, path) == MknodMade(PathInfo(path), OsMknod(f, DsKey(path)))

\* A variant that persists first: the graph is saved whatever os.mkdir gave.
MkdirTagArcEager(pathinfo, sf, m, g1) ==
    IF g1.err # "" THEN Raise(m.fs, g1.err)
    ELSE IF Len(pathinfo.tags) >= 2
    THEN [fs |-> SaveGraph(m.fs, sf, add_arc(g1.g, pathinfo.tags[Len(pathinfo.tags) - 1],
                                             Last(pathinfo.tags))).fs,
          err |-> m.err]
    ELSE [fs |-> SaveGraph(m.fs, sf, g1).fs, err |-> m.err]

\* mkdir of a tag from "if len(pathinfo.tags) >= 2" on: m is the datastore after
\* the first if, g1 the graph after it.
MkdirTagArc(pathinfo, sf, m, g1) ==
    IF m.err # "" THEN m
    ELSE IF g1.err # "" THEN Raise(m.fs, g1.err)
    ELSE IF Len(pathinfo.tags) >= 2
    THEN SaveGraph(m.fs, sf, add_arc(g1.g, pathinfo.tags[Len(pathinfo.tags) - 1],
                                     Last(pathinfo.tags)))
    ELSE SaveGraph(m.fs, sf, g1)

\* mkdir of a tag from "if not semfolder.graph.has_node(pathinfo.tags[-1])" on,
\* hn being what has_node gave.
MkdirTagNode(f, pathinfo, sf, hn) ==
    IF hn.err # "" THEN Raise(f, hn.err)
    ELSE IF hn.val THEN MkdirTagArc(pathinfo, sf, Raise(f, ""), [g |-> sf.graph, err |-> ""])
    ELSE MkdirTagArc(pathinfo, sf, OsMkdir(f, DsKey(pathinfo.path)),
                     add_node(sf.graph, Last(pathinfo.tags)))

MkdirTagLoaded(f, pathinfo, l) ==
    IF l.err # "" THEN Raise(f, l.err)
    ELSE MkdirTagNode(f, pathinfo, l.sf, has_node(l.sf.graph, Last(pathinfo.tags)))

\* mkdir(path, mode) of a tag
MkdirTag(f, pathinfo) ==
    IF Last(pathinfo.tags) \in Range(Front(pathinfo.tags)) THEN Raise(f, "EEXIST")
    ELSE MkdirTagLoaded(f, pathinfo, GetSemanticFolder(f, pathinfo.entrypoint))

\* mkdir of an entry point after os.mkdir, which gave m.
MkdirEntryPoint(path, m) ==
    IF m.err # "" THEN m ELSE SaveSemanticFolder(m.fs, NewSemanticFolder(path))

\* mkdir of a tagged folder the association does not know, after os.mkdir gave m.
MkdirTaggedNew(pathinfo, sf, m) ==
    IF m.err # "" THEN m
    ELSE SaveFiles(m.fs, sf,
                   add_file(sf.files, pathinfo.tagged_object, Range(pathinfo.tags)))

\* mkdir of a tagged folder, l being what _get_semantic_folder gave.
MkdirTagged(f, path, pathinfo, l) ==
    IF l.err # "" THEN Raise(f, l.err)
    ELSE IF has_file(l.sf.files, pathinfo.tagged_object)
    THEN SaveFiles(f, l.sf,
                   assign_tags(l.sf.files, pathinfo.tagged_object, Range(pathinfo.tags)))
    ELSE MkdirTaggedNew(pathinfo, l.sf, OsMkdir(f, DsKey(path)))

MkdirOf(f, path, pathinfo) ==
    IF is_tag(pathinfo) THEN MkdirTag(f, pathinfo)
    ELSE IF is_entrypoint(pathinfo) THEN MkdirEntryPoint(path, OsMkdir(f, DsKey(path)))
    ELSE IF is_tagged_object(pathinfo)
    THEN MkdirTagged(f, path, pathinfo, GetSemanticFolder(f, pathinfo.entrypoint))
    ELSE OsMkdir(f, DsKey(path))

\* mkdir(path, mode)
Mkdir(f, path) == MkdirOf(f, path, PathInfo(path))

\* The loop of _rmdir_tag: tagged_files is handed the str path.tags[-1], so the
\* superset test runs over its characters.
DiscardFromTagged(files, tag) ==
    [k \in DOMAIN files |->
        IF k \in tagged_files(files, CharsOf(tag)) THEN files[k] \ {tag} ELSE files[k]]

\* _rmdir_tag of a tag in the root of the entry point: os.rmdir gave r,
\* remove_node gave g.
RmdirTagNode(f, sf, tag, r, g) ==
    IF r.err # "" THEN [fs |-> f, sf |-> sf, err |-> r.err]
    ELSE IF g.err # "" THEN [fs |-> r.fs, sf |-> sf, err |-> g.err]
    ELSE [fs |-> r.fs, sf |-> WithFiles(WithGraph(sf, g.g), DiscardFromTagged(sf.files, tag)),
          err |-> ""]

\* _rmdir_tag of a tag within a tag: remove_arc gave a.
RmdirTagArc(f, sf, a) ==
    IF a.err # "" THEN [fs |-> f, sf |-> sf, err |-> a.err]
    ELSE [fs |-> f, sf |-> WithGraph(sf, a.g), err |-> ""]

\* _rmdir_tag(path, semfolder): [fs, sf, err].
RmdirTag(f, pathinfo, sf) ==
    IF Len(pathinfo.tags) < 1 THEN [fs |-> f, sf |-> sf, err |-> "AssertionError"]
    ELSE IF Len(pathinfo.tags) = 1
    THEN RmdirTagNode(f, sf, Last(pathinfo.tags), OsRmdir(f, DsKey(pathinfo.path)),
                      remove_node(sf.graph, Last(pathinfo.tags)))
    ELSE RmdirTagArc(f, sf, remove_arc(sf.graph, pathinfo.tags[Len(pathinfo.tags) - 1],
                                       Last(pathinfo.tags)))

\* rmdir of an entry point after the second os.unlink, which gave u2.
RmdirAfterAssoc(u2, k) == IF u2.err # "" THEN u2 ELSE OsRmdir(u2.fs, k)

\* rmdir of an entry point after the first os.unlink, which gave u1.
RmdirAfterGraph(u1, k) ==
    IF u1.err # "" THEN u1
    ELSE RmdirAfterAssoc(OsUnlink(u1.fs, Append(k, SEMANTIC_FS_ASSOC_FILE_NAME)), k)

RmdirEntryPointAt(f, k) ==
    IF WalkErr(f, k) # "" THEN Raise(f, WalkErr(f, k))
    ELSE IF ~Lexists(f, k) THEN Raise(f, "ENOENT")
    ELSE IF ~IsDir(f, k) THEN Raise(f, "ENOTDIR")
    ELSE IF ~(Listdir(f, k) \subseteq
                {SEMANTIC_FS_GRAPH_FILE_NAME, SEMANTIC_FS_ASSOC_FILE_NAME})
    THEN Raise(f, "ENOTEMPTY")
    ELSE RmdirAfterGraph(OsUnlink(f, Append(k, SEMANTIC_FS_GRAPH_FILE_NAME)), k)

\* rmdir(path) of an entry point: the two reserved files go first.
RmdirEntryPoint(f, path) == RmdirEntryPointAt(f, DsKey(path))

\* The branch on len(pathinfo.tags) for the loaded folder sf.
RemoveFromFolder(f, pathinfo, sf, removed) ==
    IF Len(pathinfo.tags) = 0
    THEN IF removed.err # "" THEN removed
         ELSE SaveFiles(removed.fs, sf, remove_file(sf.files, pathinfo.tagged_object))
    ELSE SaveFiles(f, sf, discard_tag(sf.files, pathinfo.tagged_object, Last(pathinfo.tags)))

RemoveLoaded(f, pathinfo, l, removed) ==
    IF l.err # "" THEN Raise(f, l.err) ELSE RemoveFromFolder(f, pathinfo, l.sf, removed)

\* The branch of rmdir and of unlink for a tagged object; removed is what
\* os.rmdir or os.unlink gives on the datastore path.
RemoveTaggedObject(f, pathinfo, removed) ==
    RemoveLoaded(f, pathinfo, GetSemanticFolder(f, pathinfo.entrypoint), removed)

\* rmdir of a tag after _rmdir_tag, which gave t.
RmdirTagSaved(t) ==
    IF t.err # "" THEN Raise(t.fs, t.err) ELSE SaveSemanticFolder(t.fs, t.sf)

\* rmdir of a tag, l being what _get_semantic_folder gave.
RmdirTagLoaded(f, pathinfo, l) ==
    IF l.err # "" THEN Raise(f, l.err) ELSE RmdirTagSaved(RmdirTag(f, pathinfo, l.sf))

RmdirOf(f, path, pathinfo) ==
    IF is_tag(pathinfo)
    THEN RmdirTagLoaded(f, pathinfo, GetSemanticFolder(f, pathinfo.entrypoint))
    ELSE IF is_entrypoint(pathinfo) THEN RmdirEntryPoint(f, path)
    ELSE IF is_tagged_object(pathinfo)
    THEN RemoveTaggedObject(f, pathinfo, OsRmdir(f, DsKey(path)))
    ELSE OsRmdir(f, DsKey(path))

\* rmdir(path)
Rmdir(f, path) == RmdirOf(f, path, PathInfo(path))

UnlinkOf(f, path, pathinfo) ==
    IF is_tag(pathinfo) \/ is_entrypoint(pathinfo) THEN Raise(f, "EISDIR")
    ELSE IF is_tagged_object(pathinfo)
    THEN RemoveTaggedObject(f, pathinfo, OsUnlink(f, DsKey(path)))
    ELSE OsUnlink(f, DsKey(path))

\* unlink(path)
Unlink(f, path) == UnlinkOf(f, path, PathInfo(path))

----------------------------------------------------------------------------
(* SemanticFS: rename and its helpers.  Each returns [fs, err]. *)

\* SemanticFolder(new.path) with add_file(f) for every f in os.listdir(new_dspath),
\* saved.
SaveListedFolder(f, new) ==
    SaveSemanticFolder(f, WithFiles(NewSemanticFolder(new.path),
                                    [k \in Listdir(f, DsKey(new.path)) |-> {}]))

\* The end of a move that makes an entry point, moved being what moving gave.
MoveToEntryPoint(new, moved) ==
    IF moved.err # "" THEN moved ELSE SaveListedFolder(moved.fs, new)

\* try add_file except ValueError: assign_tags
AddOrAssign(files, name, tags) ==
    IF add_file(files, name, tags).err = "" THEN add_file(files, name, tags)
    ELSE assign_tags(files, name, tags)

\* A file moved into a semantic space after os.rename, which gave r.
MoveFileTagged(new, sf, r) ==
    IF r.err # "" THEN r
    ELSE SaveFiles(r.fs, sf, AddOrAssign(sf.files, new.tagged_object, Range(new.tags)))

MoveFileLoaded(f, new, l, old_dspath, new_dspath) ==
    IF l.err # "" THEN Raise(f, l.err)
    ELSE MoveFileTagged(new, l.sf, OsRename(f, old_dspath, new_dspath))

MoveStandardAt(f, new, old_dspath, new_dspath) ==
    IF is_standard_object(new) THEN OsRename(f, old_dspath, new_dspath)
    ELSE IF is_entrypoint(new)
    THEN IF IsFile(f, old_dspath) THEN Raise(f, "ENOTSUP")
         ELSE MoveToEntryPoint(new, OsRename(f, old_dspath, new_dspath))
    ELSE IF is_tag(new) THEN Raise(f, "ENOTSUP")
    ELSE IF ~IsFile(f, old_dspath) THEN Raise(f, "ENOTSUP")
    ELSE MoveFileLoaded(f, new, GetSemanticFolder(f, new.entrypoint), old_dspath, new_dspath)

\* _move_standard_obj(old, new)
MoveStandardObj(f, old, new) == MoveStandardAt(f, new, DsKey(old.path), DsKey(new.path))

\* _move_entry_point(old, new)
MoveEntryPoint(f, old, new) ==
    IF IsFile(f, DsKey(old.path)) THEN Raise(f, "AssertionError")
    ELSE IF is_entrypoint(new) THEN OsRename(f, DsKey(old.path), DsKey(new.path))
    ELSE Raise(f, "ENOTSUP")

\* shutil.copy2 of a file, shutil.copytree of a directory.
CopyObject(f, src, dst) ==
    IF IsFile(f, src) THEN ShutilCopy2(f, src, dst) ELSE ShutilCopytree(f, src, dst)

\* The end of _extract_tagged_object: r is what the call on filetags gave, moved
\* what the move or the copy gave.
ExtractDone(f, sf, r, moved) ==
    IF r.err # "" THEN Raise(f, r.err)
    ELSE IF moved.err # "" THEN moved
    ELSE SaveSemanticFolder(moved.fs, WithFiles(sf, r.files))

ExtractFrom(f, old, sf, old_dspath, new_dspath) ==
    IF Len(old.tags) = 0
    THEN ExtractDone(f, sf, remove_file(sf.files, old.tagged_object),
                     OsRename(f, old_dspath, new_dspath))
    ELSE ExtractDone(f, sf, discard_tag(sf.files, old.tagged_object, Last(old.tags)),
                     CopyObject(f, old_dspath, new_dspath))

ExtractLoaded(f, old, l, old_dspath, new_dspath) ==
    IF l.err # "" THEN Raise(f, l.err)
    ELSE ExtractFrom(f, old, l.sf, old_dspath, new_dspath)

\* _extract_tagged_object(old, new)
ExtractTaggedObject(f, old, new) ==
    ExtractLoaded(f, old, GetSemanticFolder(f, old.entrypoint),
                  DsKey(old.path), DsKey(new.path))

TaggedFilesOf(l, tags) == IF l.err # "" THEN {} ELSE tagged_files(l.sf.files, Range(tags))

\* The files _convert_tag_to_folder loops over: tagged_files(old.tags).
ConvertFiles(f, old) == TaggedFilesOf(GetSemanticFolder(f, old.entrypoint), old.tags)

RECURSIVE ConvertLoop(_, _, _, _, _, _)
\* The copy of a turn of the loop: copy2 into new_dspath, or copytree.
ConvertCopy(f, name, file_dspath, new_dspath) ==
    IF IsFile(f, file_dspath) THEN ShutilCopy2(f, file_dspath, new_dspath)
    ELSE ShutilCopytree(f, file_dspath, Append(new_dspath, name))

\* A turn of the loop after its copy, which gave c.
ConvertCopied(old, new_dspath, ord, i, dt, c) ==
    IF c.err # "" THEN [fs |-> c.fs, files |-> dt.files, err |-> c.err]
    ELSE ConvertLoop(c.fs, dt.files, old, new_dspath, ord, i + 1)

\* A turn of the loop after discard_tag, which gave dt.
ConvertTurn(f, files, old, new_dspath, ord, i, dt) ==
    IF dt.err # "" THEN [fs |-> f, files |-> files, err |-> dt.err]
    ELSE ConvertCopied(old, new_dspath, ord, i, dt,
                       ConvertCopy(f, ord[i], DsKey(OsPathJoin(old.path, <<ord[i]>>)),
                                   new_dspath))

\* The loop of _convert_tag_to_folder over the enumeration ord: [fs, files, err].
ConvertLoop(f, files, old, new_dspath, ord, i) ==
    IF i > Len(ord) THEN [fs |-> f, files |-> files, err |-> ""]
    ELSE ConvertTurn(f, files, old, new_dspath, ord, i,
                     discard_tag(files, ord[i], Last(old.tags)))

\* _convert_tag_to_folder for a tagged destination, l2 being the folder of new.
ConvertTagged(new, s1, l2) ==
    IF l2.err # "" THEN Raise(s1.fs, l2.err)
    ELSE SaveFiles(s1.fs, l2.sf, add_file(l2.sf.files, new.tagged_object, Range(new.tags)))

\* ... after the first _save_semantic_folder, which gave s1.
ConvertSaved(new, s1) ==
    IF s1.err # "" THEN s1
    ELSE IF ~is_tagged_object(new) THEN s1
    ELSE ConvertTagged(new, s1, GetSemanticFolder(s1.fs, new.entrypoint))

\* ... after _rmdir_tag, which gave t.
ConvertRemoved(new, t) ==
    IF t.err # "" THEN Raise(t.fs, t.err)
    ELSE ConvertSaved(new, SaveSemanticFolder(t.fs, t.sf))

\* ... after the loop, which gave c.
ConvertLooped(old, new, sf, c) ==
    IF c.err # "" THEN Raise(c.fs, c.err)
    ELSE ConvertRemoved(new, RmdirTag(c.fs, old, WithFiles(sf, c.files)))

\* ... after os.mkdir(new_dspath), which gave m.
ConvertMade(old, new, sf, m, new_dspath, ord) ==
    IF m.err # "" THEN m
    ELSE ConvertLooped(old, new, sf, ConvertLoop(m.fs, sf.files, old, new_dspath, ord, 1))

ConvertLoaded(f, old, new, l, new_dspath, ord) ==
    IF l.err # "" THEN Raise(f, l.err)
    ELSE ConvertMade(old, new, l.sf, OsMkdir(f, new_dspath), new_dspath, ord)

\* _convert_tag_to_folder(old, new), its loop enumerating the files as ord.
ConvertTagToFolder(f, old, new, ord) ==
    IF ~is_tag(old) THEN Raise(f, "ValueError")
    ELSE IF ~(is_tagged_object(new) \/ is_standard_object(new)) THEN Raise(f, "ValueError")
    ELSE ConvertLoaded(f, old, new, GetSemanticFolder(f, old.entrypoint),
                       DsKey(new.path), ord)

\* The renaming branch after rename_node, which gave g.
RenameTagSaved(f, sf, old, new, g) ==
    IF g.err # "" THEN Raise(f, g.err)
    ELSE SaveSemanticFolder(f, WithFiles(WithGraph(sf, g.g),
                                         rename_tag(sf.files, Last(old.tags), Last(new.tags))))

\* The renaming branch after os.rename, which gave r.
RenameTagMoved(sf, old, new, r) ==
    IF r.err # "" THEN r
    ELSE RenameTagSaved(r.fs, sf, old, new,
                        rename_node(sf.graph, Last(old.tags), Last(new.tags)))

RenameTagLoaded(f, old, new, l) ==
    IF l.err # "" THEN Raise(f, l.err)
    ELSE RenameTagMoved(l.sf, old, new, OsRename(f, DsKey(old.path), DsKey(new.path)))

\* The branch of _move_tag that renames the node of a tag.
RenameTagNode(f, old, new) ==
    RenameTagLoaded(f, old, new, GetSemanticFolder(f, old.entrypoint))

\* The arc branch after remove_arc, which gave ra; new.tags[-2] of a chain of one
\* tag is an IndexError.
MoveArcRemoved(f, sf, new, ra) ==
    IF ra.err # "" THEN Raise(f, ra.err)
    ELSE IF Len(new.tags) < 2 THEN Raise(f, "IndexError")
    ELSE SaveGraph(f, sf, add_arc(ra.g, new.tags[Len(new.tags) - 1], Last(new.tags)))

MoveArcLoaded(f, old, new, l) ==
    IF l.err # "" THEN Raise(f, l.err)
    ELSE MoveArcRemoved(f, l.sf, new,
                        remove_arc(l.sf.graph, old.tags[Len(old.tags) - 1], Last(old.tags)))

\* The branch of _move_tag that moves the arc of a tag.
MoveTagArc(f, old, new) ==
    IF Len(old.tags) < 2 THEN Raise(f, "ENOTSUP")
    ELSE MoveArcLoaded(f, old, new, GetSemanticFolder(f, old.entrypoint))

\* _move_tag(old, new); the four kinds of destination exclude one another, and
\* both the standard and the tagged object end in _convert_tag_to_folder.
MoveTag(f, old, new, ord) ==
    LET same_semantic_space == old.entrypoint = new.entrypoint
        same_front == Front(old.tags) = Front(new.tags)
        same_last == Last(old.tags) = Last(new.tags)
    IN  IF IsFile(f, DsKey(old.path)) THEN Raise(f, "AssertionError")
        ELSE IF is_entrypoint(new) THEN Raise(f, "ENOTSUP")
        ELSE IF is_tag(new)
        THEN IF ~same_semantic_space THEN Raise(f, "ENOTSUP")
             ELSE IF same_front /\ ~same_last THEN RenameTagNode(f, old, new)
             ELSE IF ~same_front /\ same_last THEN MoveTagArc(f, old, new)
             ELSE IF ~same_front /\ ~same_last THEN Raise(f, "ENOTSUP")
             ELSE Raise(f, "AssertionError")
        ELSE ConvertTagToFolder(f, old, new, ord)

\* mv /_sem/_t1/x /_sem/_t1/y after os.rename, which left the datastore f.
MoveRenamedLoaded(f, old, new, l) ==
    IF l.err # "" THEN Raise(f, l.err)
    ELSE SaveFiles(f, l.sf, rename_file(l.sf.files, old.tagged_object, new.tagged_object))

MoveRenamed(old, new, r) ==
    IF r.err # "" THEN r
    ELSE MoveRenamedLoaded(r.fs, old, new, GetSemanticFolder(r.fs, new.entrypoint))

\* mv /_sem/_t1/x /_sem/_t2/x after the discard_tag, which gave dt.
RetagDiscarded(f, sf, new, dt) ==
    IF dt.err # "" THEN Raise(f, dt.err)
    ELSE SaveFiles(f, sf, assign_tags(dt.files, new.tagged_object, Range(new.tags)))

Retag(f, old, new, l) ==
    IF l.err # "" THEN Raise(f, l.err)
    ELSE IF Len(old.tags) > 0
    THEN RetagDiscarded(f, l.sf, new,
                        discard_tag(l.sf.files, old.tagged_object, Last(old.tags)))
    ELSE RetagDiscarded(f, l.sf, new, [files |-> l.sf.files, err |-> ""])

\* The branches of _move_tagged_obj inside one semantic space.
MoveInsideSpace(f, old, new) ==
    LET same_object == old.tagged_object = new.tagged_object
        same_tags == Range(old.tags) = Range(new.tags)
    IN  IF same_object /\ same_tags THEN Raise(f, "AssertionError")
        ELSE IF ~same_object /\ same_tags
        THEN MoveRenamed(old, new, OsRename(f, DsKey(old.path), DsKey(new.path)))
        ELSE IF ~same_object THEN Raise(f, "ENOTSUP")
        ELSE Retag(f, old, new, GetSemanticFolder(f, new.entrypoint))

\* A move into another semantic space after _extract_tagged_object.
MoveAcrossLoaded(f, new, l) ==
    IF l.err # "" THEN Raise(f, l.err)
    ELSE SaveFiles(f, l.sf, add_file(l.sf.files, new.tagged_object, Range(new.tags)))

MoveAcross(new, x) ==
    IF x.err # "" THEN x
    ELSE MoveAcrossLoaded(x.fs, new, GetSemanticFolder(x.fs, new.entrypoint))

\* _move_tagged_obj(old, new)
MoveTaggedObj(f, old, new) ==
    IF is_standard_object(new) THEN ExtractTaggedObject(f, old, new)
    ELSE IF is_entrypoint(new)
    THEN IF IsFile(f, DsKey(old.path)) THEN Raise(f, "ENOTSUP")
         ELSE MoveToEntryPoint(new, ExtractTaggedObject(f, old, new))
    ELSE IF is_tag(new) THEN Raise(f, "ENOTSUP")
    ELSE IF old.entrypoint = new.entrypoint THEN MoveInsideSpace(f, old, new)
    ELSE MoveAcross(new, ExtractTaggedObject(f, old, new))

\* The table of rename: one helper for each kind of source.
RenameKind(f, pathinfo_old, pathinfo_new, ord) ==
    IF is_entrypoint(pathinfo_old) THEN MoveEntryPoint(f, pathinfo_old, pathinfo_new)
    ELSE IF is_tag(pathinfo_old) THEN MoveTag(f, pathinfo_old, pathinfo_new, ord)
    ELSE IF is_tagged_object(pathinfo_old)
    THEN MoveTaggedObj(f, pathinfo_old, pathinfo_new)
    ELSE MoveStandardObj(f, pathinfo_old, pathinfo_new)

\* A rename that does not ask whether new exists.
RenameUnchecked(f, pathinfo_old, pathinfo_new, x, ord) ==
    RenameKind(f, pathinfo_old, pathinfo_new, ord)

\* rename after self._exists(new), which gave x.
RenameChecked(f, pathinfo_old, pathinfo_new, x, ord) ==
    IF x.err # "" THEN Raise(f, x.err)
    ELSE IF x.val THEN Raise(f, "EEXIST")
    ELSE RenameKind(f, pathinfo_old, pathinfo_new, ord)

RenameOf(f, old, new, pathinfo_old, pathinfo_new, ord) ==
    IF pathinfo_old.path = pathinfo_new.path THEN Raise(f, "AssertionError")
    ELSE IF IsReservedName(Basename(old)) THEN Raise(f, "AssertionError")
    ELSE IF IsReservedName(Basename(new)) THEN Raise(f, "EINVAL")
    ELSE RenameChecked(f, pathinfo_old, pathinfo_new, Exists(f, new), ord)

\* rename(old, new), a tag conversion enumerating its files as ord.
Rename(f, old, new, ord) == RenameOf(f, old, new, PathInfo(old), PathInfo(new), ord)

RenameOrdersOf(f, pathinfo_old, pathinfo_new) ==
    IF is_tag(pathinfo_old) /\ ~is_tag(pathinfo_new) /\ ~is_entrypoint(pathinfo_new)
    THEN Orders(ConvertFiles(f, pathinfo_old))
    ELSE {<<>>}

\* The enumerations rename may meet: of the files a tag conversion copies.
RenameOrders(f, old, new) == RenameOrdersOf(f, PathInfo(old), PathInfo(new))

\* The world w with the datastore f.
WithFs(w, f) == [w EXCEPT !.fs = f]

\* The end of create: sv is what the tagging gave, h what _has_ghost_file gave.
CreateReply(w4, f, sv, h) ==
    IF sv.err # "" THEN Fail(w4, sv.err)
    ELSE IF h.err # "" \/ ~h.val THEN Fail(w4, "AssertionError")
    ELSE Done(w4, <<f>>)

CreateTagged(w4, path, f, sv) == CreateReply(w4, f, sv, HasGhostFile(w4, path))

\* create after truncate(0) of the ghost, which gave t and left the world w3.
CreateTruncated(w3, path, pathinfo, f, t, sv) ==
    IF t.err # "" THEN Fail(w3, t.err)
    ELSE CreateTagged(WithFs(w3, sv.fs), path, f, sv)

CreateTruncate(w2, path, pathinfo, f, t) ==
    CreateTruncated(SetGhost(w2, path, t.g), path, pathinfo, f, t,
                    TagObject(w2.fs, pathinfo))

\* create after _add_ghost_file, which gave a.
CreateGhost(path, pathinfo, f, a) ==
    IF a.err # "" THEN Fail(a.w, a.err)
    ELSE CreateTruncate(a.w, path, pathinfo, f, GhostTruncate(a.w.ghosts[GhostKey(path)], 0))

\* create after os.open, which left the world w1.
CreateOpened(w, w1, path, pathinfo, f) ==
    IF ~(is_tagged_object(pathinfo) \/ is_standard_object(pathinfo))
    THEN Fail(WithFs(w, w1.fs), "ENOTSUP")
    ELSE IF ~is_tagged_object(pathinfo) THEN Done(w1, <<f>>)
    ELSE IF f \in w.wfds THEN Fail(w1, "AssertionError")
    ELSE CreateGhost(path, pathinfo, f, AddGhostFile([w1 EXCEPT !.wfds = @ \cup {f}], path))

\* create with dspath = k, os.open failing with e or returning f.
CreateAt(w, path, pathinfo, k, f, e) ==
    IF e # "" THEN Fail(w, e)
    ELSE CreateOpened(w, [w EXCEPT !.fs = IF Lexists(w.fs, k) THEN w.fs
                                          ELSE Put(w.fs, k, FileNode(<<>>)),
                                   !.fdtab = Put(w.fdtab, f,
                                       [path |-> path, key |-> k, writing |-> TRUE])],
                      path, pathinfo, f)

\* create(path, mode): [w, err, val].
Create(w, path) ==
    CreateAt(w, path, PathInfo(path), DsKey(path), NewFd(w),
             OsOpenErr(w.fs, DsKey(path), TRUE, TRUE))

----------------------------------------------------------------------------
(* The pure path functions, applied to every path string of the bounds *)

MaxPathLen == 5

PathNames == {E, DOT, DOTDOT, <<"_">>, <<"_", "a">>, <<"_", "b">>, <<"x">>}

RECURSIVE SeqsUpTo(_, _)
SeqsUpTo(S, n) ==
    IF n = 0 THEN {<<>>}
    ELSE LET shorter == SeqsUpTo(S, n - 1)
         IN  shorter \cup {Append(s, x) : s \in {t \in shorter : Len(t) = n - 1}, x \in S}

PathStrings == SeqsUpTo(PathNames, MaxPathLen) \ {<<>>}

\* The datastore root directory, empty.
EmptyFs == (<<>> :> DirNode)

InitIdle ==
    /\ fs = EmptyFs
    /\ ghosts = EmptyMap
    /\ counts = EmptyMap
    /\ wfds = {}
    /\ fdtab = EmptyMap
    /\ ret = [op |-> "none"]
    /\ semfolder = NewSemanticFolder(<<E, E>>)

InitPath ==
    /\ InitIdle
    /\ vpath \in PathStrings

CallDatastorePath ==
    /\ ret' = [op |-> "_datastore_path", res |-> DatastorePathResult(vpath)]
    /\ UNCHANGED <<fs, ghosts, counts, wfds, fdtab, vpath, semfolder>>

CallPathInfo ==
    /\ ret' = [op |-> "PathInfo", res |-> PathInfo(vpath),
               assert |-> PathInfoAssert(PathInfo(vpath))]
    /\ UNCHANGED <<fs, ghosts, counts, wfds, fdtab, vpath, semfolder>>

NextPath == CallDatastorePath \/ CallPathInfo

SpecPath == InitPath /\ [][NextPath]_vars

----------------------------------------------------------------------------
(* The dispatcher on a datastore that starts empty.  The requests are those
   the kernel sends: it looks a path up component by component with getattr
   before it sends the request, so a request names an object below existing
   directories; it sends mkdir, mknod and create only for a name its lookup
   did not find, rmdir only for a directory, unlink only for a file.  The
   loop of FUSE(..., nothreads=True) serves one request at a time: a handler
   runs to its reply (Do...), the reply is handed back (Return), and the next
   request is taken up. *)

MaxDepth == 3

MaxInodes == 7

MaxFds == 1

\* The entry point the requests work in, directly below the root.
EntryName == <<"_", "s">>

FsNames == {<<"_", "a">>, <<"x">>, <<"y">>}

\* The absolute, normalized paths of the entry point and of at most n names
\* below it, none of them inside a tagged directory.
PathsOver(names, n) ==
    {<<E, EntryName>> \o p : p \in {q \in SeqsUpTo(names, n) :
                                      Len(q) <= 1 \/ is_semantic_name(q[1])}}

FsPaths == PathsOver(FsNames, MaxDepth - 1)

\* The names of the requests that build what getattr is asked about: two tags
\* and one object.
LookupNames == {<<"_", "a">>, <<"_", "b">>, <<"x">>}

LookupPaths == PathsOver(LookupNames, MaxDepth - 1)

\* The paths getattr is asked about: the tagged objects, one name deeper than
\* the other requests reach.
GetattrPaths ==
    {p \in PathsOver(LookupNames, MaxDepth) :
        is_tagged_object(PathInfo(p)) /\ Len(PathInfo(p).tags) = Len(p) - 3}

World == [fs |-> fs, ghosts |-> ghosts, counts |-> counts, wfds |-> wfds, fdtab |-> fdtab]

SetWorld(w) ==
    /\ fs' = w.fs
    /\ ghosts' = w.ghosts
    /\ counts' = w.counts
    /\ wfds' = w.wfds
    /\ fdtab' = w.fdtab

\* No request is being served.
Ready == ret.op = "none"

\* The reply of the request served last is handed back.
Return ==
    /\ ret.op # "none"
    /\ ret' = [op |-> "none"]
    /\ UNCHANGED <<fs, ghosts, counts, wfds, fdtab, vpath, semfolder>>

HasKind(a, kind) == a.err = "" /\ a.val.kind = kind

\* The kernel's lookup of a path and of the directories above it.
IsDirPath(w, path) == HasKind(Getattr(w, path), "dir")

IsFilePath(w, path) == HasKind(Getattr(w, path), "file")

LookedUp(w, path) == \A i \in 2..(Len(path) - 1) : IsDirPath(w, SubSeq(path, 1, i))

NotFound(w, path) == Getattr(w, path).err = "ENOENT"

Room == Cardinality(DOMAIN fs) < MaxInodes

\* No descriptor is open: the requests that remove or move objects are sent
\* between the sessions of the clients.
NoneOpen == DOMAIN fdtab = {}

\* The reply a of a file method, and the world it leaves.
ServeFile(op, path, a) ==
    /\ SetWorld(a.w)
    /\ ret' = [op |-> op, path |-> path, err |-> a.err, val |-> a.val]
    /\ UNCHANGED <<vpath, semfolder>>

DoGetattr(path) ==
    /\ Ready
    /\ ServeFile("getattr", path, Getattr(World, path))

\* A handler that touches the datastore alone, with its reply r = [fs, err].
ServeFs(op, path, new, r) ==
    /\ fs' = r.fs
    /\ ret' = [op |-> op, path |-> path, new |-> new, err |-> r.err]
    /\ UNCHANGED <<ghosts, counts, wfds, fdtab, vpath, semfolder>>

DoMkdir(path) ==
    /\ Ready /\ Room
    /\ LookedUp(World, path) /\ NotFound(World, path)
    /\ ServeFs("mkdir", path, path, Mkdir(fs, path))

DoMknod(path) ==
    /\ Ready /\ Room
    /\ LookedUp(World, path) /\ NotFound(World, path)
    /\ ServeFs("mknod", path, path, Mknod(fs, path))

DoRmdir(path) ==
    /\ Ready /\ NoneOpen
    /\ LookedUp(World, path) /\ IsDirPath(World, path)
    /\ ServeFs("rmdir", path, path, Rmdir(fs, path))

DoUnlink(path) ==
    /\ Ready /\ NoneOpen
    /\ LookedUp(World, path) /\ IsFilePath(World, path)
    /\ ServeFs("unlink", path, path, Unlink(fs, path))

\* The kernel has looked old up and found it.
Found(w, path) == LookedUp(w, path) /\ Getattr(w, path).err = ""

\* The reply r of rename; the datastore stays within the bound on its inodes.
ServeRename(old, new, r) ==
    /\ r.err # SELFCOPY
    /\ Cardinality(DOMAIN r.fs) <= MaxInodes
    /\ ServeFs("rename", old, new, r)

DoRename(old, new) ==
    /\ old # new /\ ~IsPrefix(old, new) /\ ~IsPrefix(new, old)
    /\ LookedUp(World, new)
    /\ \E ord \in RenameOrders(fs, old, new) :
          ServeRename(old, new, Rename(fs, old, new, ord))

DoCreate(path) ==
    /\ Ready /\ Room
    /\ Cardinality(DOMAIN fdtab) < MaxFds
    /\ LookedUp(World, path) /\ NotFound(World, path)
    /\ ServeFile("create", path, Create(World, path))

\* The enumerations the flush of a release may meet.
ReleaseOrders(w, fh) ==
    IF fh \in w.wfds /\ GhostKey(w.fdtab[fh].path) \in DOMAIN w.ghosts
    THEN Orders(w.ghosts[GhostKey(w.fdtab[fh].path)].tree)
    ELSE {<<>>}

\* The reply a of a file method that works on the descriptor fh (0: none) with
\* the arguments arg, and the world it leaves.
ServeIo(op, path, fh, arg, a) ==
    /\ SetWorld(a.w)
    /\ ret' = [op |-> op, path |-> path, fh |-> fh, arg |-> arg,
               err |-> a.err, val |-> a.val]
    /\ UNCHANGED <<vpath, semfolder>>

\* What a release commits: the GhostFile of a tracked descriptor, else nothing.
Committed(w, fh) ==
    IF fh \in w.wfds /\ GhostKey(w.fdtab[fh].path) \in DOMAIN w.ghosts
    THEN <<w.ghosts[GhostKey(w.fdtab[fh].path)]>>
    ELSE <<>>

DoRelease(fh) ==
    /\ Ready
    /\ fh \in DOMAIN fdtab
    /\ \E ord \in ReleaseOrders(World, fh) :
          ServeIo("release", fdtab[fh].path, fh, Committed(World, fh),
                  Release(World, fdtab[fh].path, fh, ord))

InitFS ==
    /\ InitIdle
    /\ vpath = <<E, E>>

NextFS ==
    \/ \E path \in FsPaths : DoMkdir(path)
    \/ \E path \in FsPaths : DoMknod(path)
    \/ \E path \in FsPaths : DoRmdir(path)
    \/ \E path \in FsPaths : DoUnlink(path)
    \/ \E old \in FsPaths :
          /\ Ready /\ NoneOpen
          /\ Found(World, old)
          /\ \E new \in FsPaths : DoRename(old, new)
    \/ \E path \in FsPaths : DoCreate(path)
    \/ \E fh \in 1..MaxFds : DoRelease(fh)
    \/ Return

SpecFS == InitFS /\ [][NextFS]_vars

\* The requests that build tag graphs, and getattr on the tagged objects.
NextLookup ==
    \/ \E path \in GetattrPaths : DoGetattr(path)
    \/ \E path \in LookupPaths : DoMkdir(path)
    \/ \E path \in LookupPaths : DoMknod(path)
    \/ \E path \in LookupPaths : DoRmdir(path)
    \/ \E old \in LookupPaths :
          /\ Ready /\ NoneOpen
          /\ Found(World, old)
          /\ \E new \in LookupPaths : DoRename(old, new)
    \/ Return

SpecLookup == InitFS /\ [][NextLookup]_vars

----------------------------------------------------------------------------
(* The listings.  On a datastore that starts empty the requests build an
   entry point with tags, arcs and tagged objects; readdir is sent for a
   directory the kernel has looked up, and getattr is asked about the names
   of the two reserved files, in both letter cases. *)

\* The root and the paths of the requests.
ListPaths == {<<E, E>>} \cup LookupPaths

\* The names of the reserved files, as they are and lowered.
ReservedNames ==
    {SEMANTIC_FS_GRAPH_FILE_NAME, SEMANTIC_FS_ASSOC_FILE_NAME,
     LowerName(SEMANTIC_FS_GRAPH_FILE_NAME), LowerName(SEMANTIC_FS_ASSOC_FILE_NAME)}

\* A reserved name in the root, in the entry point and below a tag.
ReservedPaths ==
    {Append(d, n) : d \in {<<E>>, <<E, EntryName>>, <<E, EntryName, <<"_", "a">>>>},
                    n \in ReservedNames}

\* The reply a = [val, err] of a handler that reads the datastore alone.
ServeList(op, path, a) ==
    /\ ret' = [op |-> op, path |-> path, err |-> a.err, val |-> a.val]
    /\ UNCHANGED <<fs, ghosts, counts, wfds, fdtab, vpath, semfolder>>

DoReaddir(path) ==
    /\ Ready
    /\ path = <<E, E>> \/ (LookedUp(World, path) /\ IsDirPath(World, path))
    /\ ServeList("readdir", path, Readdir(fs, path))

NextList ==
    \/ \E path \in ListPaths : DoReaddir(path)
    \/ \E path \in ReservedPaths : DoGetattr(path)
    \/ \E path \in LookupPaths : DoMkdir(path)
    \/ \E path \in LookupPaths : DoMknod(path)
    \/ \E path \in LookupPaths : DoRmdir(path)
    \/ \E path \in LookupPaths : DoUnlink(path)
    \/ \E old \in LookupPaths :
          /\ Ready /\ NoneOpen
          /\ Found(World, old)
          /\ \E new \in LookupPaths : DoRename(old, new)
    \/ Return

SpecList == InitFS /\ [][NextList]_vars

----------------------------------------------------------------------------
(* The handlers called with a reserved name.  getattr refuses these names,
   so the lookup of the kernel never finds them; the handlers are called
   here as a caller of the class calls them, with the path of a reserved
   file inside the entry point, beside the requests that build the entry
   point. *)

\* A reserved name in the entry point and below its tag: the graph file as it
\* is named, the association file in lower case.
ReservedInside ==
    {Append(d, n) : d \in {<<E, EntryName>>, <<E, EntryName, <<"_", "a">>>>},
                    n \in {SEMANTIC_FS_GRAPH_FILE_NAME,
                            LowerName(SEMANTIC_FS_ASSOC_FILE_NAME)}}

\* The paths of the requests that build the entry point, its tag and an object.
BuildPaths == PathsOver({<<"_", "a">>, <<"x">>}, 1)

\* The entry point is there, and the call finds room for what it may make.
Callable == Ready /\ Room /\ IsDirPath(World, <<E, EntryName>>)

CallMkdir(path) == Callable /\ ServeFs("mkdir", path, path, Mkdir(fs, path))

CallRmdir(path) == Callable /\ ServeFs("rmdir", path, path, Rmdir(fs, path))

CallUnlink(path) == Callable /\ ServeFs("unlink", path, path, Unlink(fs, path))

CallMknod(path) == Callable /\ ServeFs("mknod", path, path, Mknod(fs, path))

CallCreate(path) ==
    /\ Callable
    /\ Cardinality(DOMAIN fdtab) < MaxFds
    /\ ServeFile("create", path, Create(World, path))

CallOpen(path, writing) ==
    /\ Callable
    /\ Cardinality(DOMAIN fdtab) < MaxFds
    /\ ServeIo("open", path, 0, <<writing>>, Open(World, path, writing))

CallTruncate(path, length) ==
    /\ Callable
    /\ ServeIo("truncate", path, 0, <<length>>, Truncate(World, path, length))

CallRename(old, new) ==
    /\ Callable
    /\ \E ord \in RenameOrders(fs, old, new) :
          ServeRename(old, new, Rename(fs, old, new, ord))

NextReserved ==
    \/ \E path \in BuildPaths : DoMkdir(path)
    \/ \E path \in BuildPaths : DoMknod(path)
    \/ \E path \in ReservedInside : CallMkdir(path)
    \/ \E path \in ReservedInside : CallRmdir(path)
    \/ \E path \in ReservedInside : CallUnlink(path)
    \/ \E path \in ReservedInside : CallMknod(path)
    \/ \E path \in ReservedInside : CallCreate(path)
    \/ \E path \in ReservedInside, writing \in BOOLEAN : CallOpen(path, writing)
    \/ \E path \in ReservedInside : CallTruncate(path, 0)
    \/ \E old \in BuildPaths, new \in ReservedInside :
          Found(World, old) /\ CallRename(old, new)
    \/ \E fh \in 1..MaxFds : DoRelease(fh)
    \/ Return

SpecReserved == InitFS /\ [][NextReserved]_vars

----------------------------------------------------------------------------
(* The handlers called on a path that exists.  The kernel answers mkdir of
   an existing name and the rename of a path to itself on its own, so these
   calls reach the handlers only from a caller of the class; they are made
   here beside the requests that build the entry point. *)

\* mkdir called with a path that exists.
CallMkdirExisting(path) == Found(World, path) /\ CallMkdir(path)

\* rename called with one path for old and new.
CallRenameSelf(path) == Found(World, path) /\ CallRename(path, path)

NextDirect ==
    \/ \E path \in FsPaths : DoMkdir(path)
    \/ \E path \in FsPaths : DoMknod(path)
    \/ \E path \in FsPaths : CallMkdirExisting(path)
    \/ \E path \in FsPaths : CallRenameSelf(path)
    \/ Return

SpecDirect == InitFS /\ [][NextDirect]_vars

----------------------------------------------------------------------------
(* Standard objects beside the entry point.  The requests make directories
   and files at the root of the mount and under the entry point /_s, and
   rename moves them across the border of the semantic space. *)

\* The standard paths /x and /y, the entry point, and what lies below it.
StandardPaths ==
    {<<E, <<"x">>>>, <<E, <<"y">>>>} \cup PathsOver({<<"_", "a">>, <<"x">>, <<"y">>}, 2)

NextStandard ==
    \/ \E path \in StandardPaths : DoMkdir(path)
    \/ \E path \in StandardPaths : DoMknod(path)
    \/ \E old \in StandardPaths :
          /\ Ready /\ NoneOpen
          /\ Found(World, old)
          /\ \E new \in StandardPaths : DoRename(old, new)
    \/ Return

\* The datastore holds the standard file /y, of one byte, when the file
\* system is mounted over it.
InitStandard ==
    /\ fs = Put(EmptyFs, <<<<"y">>>>, FileNode(<<1>>))
    /\ ghosts = EmptyMap
    /\ counts = EmptyMap
    /\ wfds = {}
    /\ fdtab = EmptyMap
    /\ ret = [op |-> "none"]
    /\ vpath = <<E, E>>
    /\ semfolder = NewSemanticFolder(<<E, E>>)

SpecStandard == InitStandard /\ [][NextStandard]_vars

----------------------------------------------------------------------------
(* The Graph of a SemanticFolder held in memory, its methods called one after
   the other by a caller of the class.  ret records the call made last and
   the exception it raised, "" when it returned. *)

NodeNames == {<<"_", "a">>, <<"_", "b">>, <<"_", "c">>}

\* The call op on the graph, with its arguments; r is what the method gave.
ServeGraph(op, from_node, to_node, r) ==
    /\ semfolder' = WithGraph(semfolder, r.g)
    /\ ret' = [op |-> op, from |-> from_node, to |-> to_node, err |-> r.err]
    /\ UNCHANGED <<fs, ghosts, counts, wfds, fdtab, vpath>>

CallAddNode(name) == ServeGraph("add_node", name, name, add_node(semfolder.graph, name))

CallRemoveNode(name) ==
    ServeGraph("remove_node", name, name, remove_node(semfolder.graph, name))

CallRenameNode(old, new) ==
    ServeGraph("rename_node", old, new, rename_node(semfolder.graph, old, new))

CallAddArc(from_node, to_node) ==
    ServeGraph("add_arc", from_node, to_node, add_arc(semfolder.graph, from_node, to_node))

CallRemoveArc(from_node, to_node) ==
    ServeGraph("remove_arc", from_node, to_node,
               remove_arc(semfolder.graph, from_node, to_node))

NextGraph ==
    \/ \E name \in NodeNames : CallAddNode(name)
    \/ \E name \in NodeNames : CallRemoveNode(name)
    \/ \E old \in NodeNames, new \in NodeNames : CallRenameNode(old, new)
    \/ \E from_node \in NodeNames, to_node \in NodeNames : CallAddArc(from_node, to_node)
    \/ \E from_node \in NodeNames, to_node \in NodeNames : CallRemoveArc(from_node, to_node)

SpecGraph == InitFS /\ [][NextGraph]_vars

----------------------------------------------------------------------------
(* The file methods on a datastore that holds one object: the entry point
   /_s, the tag _a and the file x under the entry point, which carries no
   tag yet.  A client opens x through /_s/x or, once it is tagged, through
   /_s/_a/x; create of /_s/_a/x tags it.  The kernel sends open and truncate
   for a file its lookup found, write on a descriptor opened for writing,
   read on a descriptor opened for reading. *)

MaxFileLen == 3

MaxBufLen == 2

MaxOpen == 2

\* The values of a byte of the file or of a buffer.
ByteValues == {0, 1}

Contents == SeqsUpTo(ByteValues, MaxFileLen)

Buffers == SeqsUpTo(ByteValues, MaxBufLen) \ {<<>>}

ObjectName == <<"x">>

TagName == <<"_", "a">>

PlainPath == <<E, EntryName, ObjectName>>

TaggedPath == <<E, EntryName, TagName, ObjectName>>

ObjectPaths == {PlainPath, TaggedPath}

\* The physical file behind both paths.
ObjectKey == <<EntryName, ObjectName>>

\* The datastore after mkdir /_s, mkdir /_s/_a and mknod /_s/x.
ObjectStore ==
    Mknod(Mkdir(Mkdir(EmptyFs, <<E, EntryName>>).fs, <<E, EntryName, TagName>>).fs,
          PlainPath).fs

InitGhost ==
    /\ fs \in {Put(ObjectStore, ObjectKey, FileNode(content)) : content \in Contents}
    /\ ghosts = EmptyMap
    /\ counts = EmptyMap
    /\ wfds = {}
    /\ fdtab = EmptyMap
    /\ ret = [op |-> "none"]
    /\ vpath = <<E, E>>
    /\ semfolder = NewSemanticFolder(<<E, E>>)

DoOpen(path, writing) ==
    /\ Ready
    /\ Cardinality(DOMAIN fdtab) < MaxOpen
    /\ LookedUp(World, path) /\ IsFilePath(World, path)
    /\ ServeIo("open", path, NewFd(World), [writing |-> writing],
               Open(World, path, writing))

DoRead(fh, length, offset) ==
    /\ Ready
    /\ fh \in DOMAIN fdtab /\ ~fdtab[fh].writing
    /\ ServeIo("read", fdtab[fh].path, fh, [length |-> length, offset |-> offset],
               Read(World, fdtab[fh].path, length, offset, fh))

\* The enumerations the flush of a write may meet: of the tree after the add.
WriteOrders(w, path, buf, offset) ==
    IF GhostKey(path) \in DOMAIN w.ghosts
    THEN Orders(GhostAfterAdd(w.ghosts[GhostKey(path)], buf, offset).tree)
    ELSE {<<>>}

DoWrite(fh, buf, offset) ==
    /\ Ready
    /\ fh \in DOMAIN fdtab /\ fdtab[fh].writing
    /\ offset + Len(buf) <= MaxFileLen
    /\ \E ord \in WriteOrders(World, fdtab[fh].path, buf, offset) :
          ServeIo("write", fdtab[fh].path, fh, [buf |-> buf, offset |-> offset],
                  Write(World, fdtab[fh].path, buf, offset, fh, ord))

DoTruncate(path, length) ==
    /\ Ready
    /\ LookedUp(World, path) /\ IsFilePath(World, path)
    /\ ServeIo("truncate", path, 0, [length |-> length],
               Truncate(World, path, length))

\* Every write session that is open goes through path: no ghost has another key.
SoleWriter(path) == \A k \in DOMAIN ghosts : k = GhostKey(path)

\* One GhostFile at a time: nothing else writes the physical file while it lives.
NextSession ==
    \/ \E path \in ObjectPaths : SoleWriter(path) /\ DoOpen(path, TRUE)
    \/ \E path \in ObjectPaths : DoOpen(path, FALSE)
    \/ \E path \in ObjectPaths : SoleWriter(path) /\ DoCreate(path)
    \/ \E fh \in 1..MaxOpen, length \in 0..MaxFileLen, offset \in 0..MaxFileLen :
          DoRead(fh, length, offset)
    \/ \E fh \in 1..MaxOpen, buf \in Buffers, offset \in 0..MaxFileLen :
          DoWrite(fh, buf, offset)
    \/ \E path \in ObjectPaths, length \in 0..MaxFileLen :
          SoleWriter(path) /\ DoTruncate(path, length)
    \/ \E fh \in 1..MaxOpen : DoRelease(fh)
    \/ Return

SpecSession == InitGhost /\ [][NextSession]_vars

\* Write sessions through both paths, interleaved.
NextGhost ==
    \/ \E path \in ObjectPaths, writing \in BOOLEAN : DoOpen(path, writing)
    \/ \E path \in ObjectPaths : DoCreate(path)
    \/ \E fh \in 1..MaxOpen, length \in 0..MaxFileLen, offset \in 0..MaxFileLen :
          DoRead(fh, length, offset)
    \/ \E fh \in 1..MaxOpen, buf \in Buffers, offset \in 0..MaxFileLen :
          DoWrite(fh, buf, offset)
    \/ \E path \in ObjectPaths, length \in 0..MaxFileLen : DoTruncate(path, length)
    \/ \E fh \in 1..MaxOpen : DoRelease(fh)
    \/ Return

SpecGhost == InitGhost /\ [][NextGhost]_vars

----------------------------------------------------------------------------
(* Two write sessions on the object, one through each path, both open: the
   datastore after mkdir /_s, mkdir /_s/_a, mknod /_s/_a/x and a write of
   the content, then open(/_s/x, O_WRONLY) and open(/_s/_a/x, O_WRONLY).
   The sessions truncate and write in any interleaving and release. *)

TaggedStore ==
    Mknod(Mkdir(Mkdir(EmptyFs, <<E, EntryName>>).fs, <<E, EntryName, TagName>>).fs,
          TaggedPath).fs

\* The world with the file content and no descriptor open.
ClosedWorld(f, content) ==
    [fs |-> Put(f, ObjectKey, FileNode(content)), ghosts |-> EmptyMap,
     counts |-> EmptyMap, wfds |-> {}, fdtab |-> EmptyMap]

BothOpen(content) ==
    Open(Open(ClosedWorld(TaggedStore, content), PlainPath, TRUE).w, TaggedPath, TRUE).w

InitRace ==
    /\ \E content \in Contents :
          /\ fs = BothOpen(content).fs
          /\ ghosts = BothOpen(content).ghosts
          /\ counts = BothOpen(content).counts
          /\ wfds = BothOpen(content).wfds
          /\ fdtab = BothOpen(content).fdtab
    /\ ret = [op |-> "none"]
    /\ vpath = <<E, E>>
    /\ semfolder = NewSemanticFolder(<<E, E>>)

\* A truncate through the path of a session that is open.
DoTruncateOpen(fh, length) ==
    /\ fh \in DOMAIN fdtab
    /\ DoTruncate(fdtab[fh].path, length)

NextRace ==
    \/ \E fh \in 1..MaxOpen, buf \in Buffers, offset \in 0..MaxFileLen :
          DoWrite(fh, buf, offset)
    \/ \E fh \in 1..MaxOpen, length \in 0..MaxFileLen : DoTruncateOpen(fh, length)
    \/ \E fh \in 1..MaxOpen : DoRelease(fh)
    \/ Return

SpecRace == InitRace /\ [][NextRace]_vars

----------------------------------------------------------------------------
(* C1: physical singleton of the datastore mapper.  For an absolute path  *)
(* that PathInfo classifies as a tagged object with entry point E and     *)
(* object name f, _datastore_path(path) is _datastore_path(E) joined with *)
(* f, whatever the tag chain; for a tag path it is _datastore_path(E)     *)
(* joined with the last tag of the chain.                                 *)
C1_PhysicalSingleton ==
    (ret.op = "_datastore_path" /\ IsAbs(vpath)) =>
        LET pi == PathInfo(vpath) IN
        /\ ret.res.err = ""
        /\ is_tagged_object(pi) =>
              ret.res.path = OsPathJoin(DatastorePath(pi.entrypoint), <<pi.tagged_object>>)
        /\ is_tag(pi) =>
              ret.res.path = OsPathJoin(DatastorePath(pi.entrypoint), <<Last(pi.tags)>>)

\* A tagged object reached through a chain of at least two tags has been mapped.
C1_Witness ==
    /\ ret.op = "_datastore_path"
    /\ IsAbs(vpath)
    /\ is_tagged_object(PathInfo(vpath))
    /\ Len(PathInfo(vpath).tags) >= 2

----------------------------------------------------------------------------
(* What the claims about the dispatcher speak of, read off the datastore *)

\* The physical directories that hold the two files of a semantic folder.
EntryKeys(f) ==
    {k \in DOMAIN f :
        /\ IsDir(f, k)
        /\ ReadPickle(f, Append(k, SEMANTIC_FS_GRAPH_FILE_NAME)).err = ""
        /\ ReadPickle(f, Append(k, SEMANTIC_FS_ASSOC_FILE_NAME)).err = ""}

\* The nodes of the tag graph stored in the directory k.
NodesAt(f, k) == DOMAIN f[Append(k, SEMANTIC_FS_GRAPH_FILE_NAME)].val.items[1]

\* The FileTagMap stored in the directory k.
FileTagMapAt(f, k) == f[Append(k, SEMANTIC_FS_ASSOC_FILE_NAME)].val.items

\* tags is a path of the graph: every tag a node, every consecutive pair an arc.
IsGraphPath(g, tags) ==
    /\ \A i \in 1..Len(tags) : tags[i] \in DOMAIN g.out
    /\ \A i \in 1..(Len(tags) - 1) : tags[i + 1] \in g.out[tags[i]]

\* The five conditions of the existence predicate for a tagged-object path.
ExistenceConditions(f, path) ==
    LET pi == PathInfo(path)
        l == GetSemanticFolder(f, pi.entrypoint)
    IN  /\ l.err = ""
        /\ IsGraphPath(l.sf.graph, pi.tags)
        /\ pi.tagged_object \in DOMAIN l.sf.files
        /\ Range(pi.tags) \subseteq l.sf.files[pi.tagged_object]
        /\ Lexists(f, DsKey(path))

(* C2: existence predicate.  getattr on a tagged-object path succeeds if    *)
(* and only if the metadata of the entry point loads, the tag chain is a    *)
(* path of the tag graph, the object is a key of the FileTagMap, its tagset *)
(* holds every tag of the chain and the physical path exists; in every      *)
(* other case the reply is ENOENT.                                          *)
C2_ExistencePredicate ==
    (ret.op = "getattr" /\ is_tagged_object(PathInfo(ret.path))) =>
        /\ (ret.err = "") <=> ExistenceConditions(fs, ret.path)
        /\ ret.err # "" => ret.err = "ENOENT"

(* C3: invariant 3 of the semantic folder.  After every request, every tag  *)
(* in the tagset of a file of a FileTagMap is a node of the tag graph of    *)
(* the same entry point.                                                    *)
C3_TagsetsAreNodes ==
    \A k \in EntryKeys(fs) :
        \A name \in DOMAIN FileTagMapAt(fs, k) :
            FileTagMapAt(fs, k)[name] \subseteq NodesAt(fs, k)

\* The semantic names directly in the directory k, the two reserved files aside.
SemanticSubdirs(f, k) ==
    {n \in Listdir(f, k) : is_semantic_name(n) /\ IsDir(f, Append(k, n))}

(* C4: invariant 1 of the semantic folder.  After every request, a name is  *)
(* a node of the tag graph of an entry point if and only if a physical      *)
(* subdirectory of that (semantic) name lies directly in the physical       *)
(* directory of the entry point.                                            *)
C4_NodesAreSubdirs ==
    \A k \in EntryKeys(fs) : NodesAt(fs, k) = SemanticSubdirs(fs, k)

(* C5: invariant 2 of the semantic folder.  After every request, every key  *)
(* of a FileTagMap names a physical inode directly in the physical          *)
(* directory of its entry point (one inode: the datastore maps a path to    *)
(* one inode).                                                              *)
C5_KeysArePhysical ==
    \A k \in EntryKeys(fs) :
        \A name \in DOMAIN FileTagMapAt(fs, k) : Lexists(fs, Append(k, name))

----------------------------------------------------------------------------
(* What the claims about the ghost files speak of *)

\* The content of the physical file of the object.
Disk == fs[ObjectKey].bytes

\* The position p (0-based) lies in a rewritten interval of the ghost g.
Owned(g, p) == \E iv \in g.tree : iv[1] <= p /\ p < iv[2]

\* The buffered view of the ghost g over the file content bytes: the bytes of
\* the file where g owns them, zeros elsewhere, g.filesize long.
BufferedView(g, bytes) ==
    [i \in 1..g.filesize |->
        IF Owned(g, i - 1) /\ i <= Len(bytes) THEN bytes[i] ELSE 0]

\* The part of content a read of length bytes at offset covers.
Window(content, length, offset) ==
    [i \in 1..Max(0, Min(length, Len(content) - offset)) |-> content[offset + i]]

\* The buffer of the write request arg equals the bytes on disk at its offset.
EqualsDisk(bytes, arg) ==
    \A i \in 1..Len(arg.buf) :
        arg.offset + i <= Len(bytes) /\ bytes[arg.offset + i] = arg.buf[i]

\* The request served by the step is a truncate, or a write of the bytes that
\* are on disk, on a path that has a ghost.
QuietStep ==
    /\ ret'.op \in {"truncate", "write"}
    /\ GhostKey(ret'.path) \in DOMAIN ghosts
    /\ ret'.op = "write" => EqualsDisk(Disk, ret'.arg)

\* What C6 says of one step.
IsolatedStep ==
    /\ QuietStep => fs' = fs
    /\ (ret'.op = "read" /\ GhostKey(ret'.path) \notin DOMAIN ghosts) =>
          /\ ret'.err = ""
          /\ ret'.val = Window(Disk, ret'.arg.length, ret'.arg.offset)
    /\ (ret'.op = "read" /\ GhostKey(ret'.path) \in DOMAIN ghosts) =>
          /\ ret'.err = ""
          /\ ret'.val = Window(BufferedView(ghosts[GhostKey(ret'.path)], Disk),
                               ret'.arg.length, ret'.arg.offset)

ViewPreservingStep ==
    (ret'.op = "release" /\ ret'.arg # <<>>) =>
        /\ ret'.err = ""
        /\ fs'[ObjectKey].bytes =
              GhostRead(ret'.arg[1], Disk, ret'.arg[1].filesize, 0).data
        /\ fs'[ObjectKey].bytes = BufferedView(ret'.arg[1], Disk)

(* C7: commit is view-preserving.  With one GhostFile and no other writer   *)
(* of the physical file, after any truncates and writes the content of the  *)
(* file right after apply is what read(filesize, 0) returned right before   *)
(* it: filesize long, the bytes inside the rewritten intervals unchanged,   *)
(* every gap zero, in whatever order the flush enumerates the intervals.    *)
C7_CommitPreservesView == [][ViewPreservingStep]_vars

\* The ghost g owns the whole of the file content bytes and nothing more.
Complete(g, bytes) == g.filesize = Len(bytes) /\ g.tree = WholeTree(Len(bytes))

\* The request served by the step belongs to a copy of the file onto itself:
\* the create or write-open, a write of the bytes on disk, or the release of
\* a descriptor whose ghost holds the complete content.
CopyStep ==
    \/ ret'.op = "create"
    \/ ret'.op = "open" /\ ret'.arg.writing
    \/ ret'.op = "write" /\ GhostKey(ret'.path) \in DOMAIN ghosts
                         /\ EqualsDisk(Disk, ret'.arg)
    \/ ret'.op = "release" /\ ret'.arg # <<>> /\ Complete(ret'.arg[1], Disk)

Overlay(content, buf, offset) ==
    [i \in 1..Len(content) |->
        IF i > offset /\ i <= offset + Len(buf) THEN buf[i - offset] ELSE content[i]]

\* The buffered view of g, zero-filled up to the length n.
ViewUpTo(g, bytes, n) == BufferedView([filesize |-> n, tree |-> g.tree], bytes)

\* What a full read through path returns in the state the step leaves.
ReadAfter(path, n) ==
    IF GhostKey(path) \in DOMAIN ghosts'
    THEN GhostRead(ghosts'[GhostKey(path)], fs'[ObjectKey].bytes, n, 0).data
    ELSE PRead(fs'[ObjectKey].bytes, 0, n)

\* What C9 says of a write of arg through the ghost g at the key k that gives
\* the content expected.
CommittedThrough(k, expected) ==
    /\ fs'[ObjectKey].bytes = expected
    /\ k \in DOMAIN ghosts'
    /\ ghosts'[k] = [filesize |-> Len(expected), tree |-> {<<0, Len(expected)>>}]
    /\ \A path \in ObjectPaths : ReadAfter(path, Len(expected)) = expected

DivergingStep ==
    (/\ ret'.op = "write"
     /\ GhostKey(ret'.path) \in DOMAIN ghosts
     /\ ~TakesSameDataPath(Disk, ret'.arg.buf, ret'.arg.offset)) =>
        CommittedThrough(GhostKey(ret'.path),
            Overlay(ViewUpTo(ghosts[GhostKey(ret'.path)], Disk,
                             Max(ghosts[GhostKey(ret'.path)].filesize,
                                 ret'.arg.offset + Len(ret'.arg.buf))),
                    ret'.arg.buf, ret'.arg.offset))

(* C9: a diverging write commits through.  When write(buf, offset) does not *)
(* take the same-data path, on return the physical file holds the buffered  *)
(* view from before the write (zeros in the gaps, max(filesize, offset +    *)
(* len(buf)) long) with buf laid over it at offset, the filesize of the     *)
(* ghost is the physical size, its intervals are exactly {[0, filesize)},   *)
(* and a read through every virtual path of the file returns that content.  *)
C9_DivergingWriteCommits == [][DivergingStep]_vars

\* The keys the ghost table can hold for the object.
GhostKeys == {GhostKey(path) : path \in ObjectPaths} \cup DOMAIN ghosts \cup DOMAIN counts

\* The tracked write descriptors that are open through the key k.
Tracked(k) == {fh \in wfds : fh \in DOMAIN fdtab /\ GhostKey(fdtab[fh].path) = k}

\* A ghost exists for a key exactly while tracked descriptors opened through
\* it are open, and its reference count is their number.
GhostWhileOpen ==
    \A k \in GhostKeys :
        /\ k \in DOMAIN ghosts <=> Tracked(k) # {}
        /\ k \in DOMAIN counts <=> Tracked(k) # {}
        /\ k \in DOMAIN counts => counts[k] = Cardinality(Tracked(k))

\* The release of a tracked descriptor through the key k, the ghost being g:
\* the ghost is committed, the count goes down by one, the ghost goes at zero.
CommitThenDecrement(k, g) ==
    /\ ret'.err = ""
    /\ Len(fs'[ObjectKey].bytes) = g.filesize
    /\ ret'.fh \notin wfds' /\ ret'.fh \notin DOMAIN fdtab'
    /\ IF counts[k] = 1
       THEN k \notin DOMAIN ghosts' /\ k \notin DOMAIN counts'
       ELSE /\ k \in DOMAIN ghosts' /\ k \in DOMAIN counts'
            /\ counts'[k] = counts[k] - 1
            /\ ghosts'[k] = [filesize |-> g.filesize, tree |-> WholeTree(g.filesize)]

LifecycleStep ==
    (ret'.op = "release" /\ ret'.arg # <<>>) =>
        CommitThenDecrement(GhostKey(ret'.path), ret'.arg[1])

(* C10: ghost-table lifecycle.  The GhostFile of a key (physical path,      *)
(* normalized virtual path) exists from the first write-open or create of   *)
(* the tagged object until the release that makes the releases of tracked   *)
(* descriptors as many as those opens; every such release commits the ghost *)
(* and then takes one off the reference count, and the ghost is destroyed   *)
(* exactly when the count reaches 0: after n opens and n releases no ghost  *)
(* remains for the key.                                                     *)
C10_GhostLifecycle == []GhostWhileOpen /\ [][LifecycleStep]_vars

\* Of two tracked descriptors opened through /_s/_a/x one has been released:
\* the ghost is committed and lives on with the count 1.
C10_Witness ==
    /\ ret.op = "release" /\ ret.arg # <<>> /\ ret.path = TaggedPath
    /\ GhostKey(TaggedPath) \in DOMAIN ghosts
    /\ counts[GhostKey(TaggedPath)] = 1
    /\ Cardinality(Tracked(GhostKey(TaggedPath))) = 1

----------------------------------------------------------------------------
(* What the claims about two write sessions speak of *)

\* The paths through which tracked descriptors are open.
TrackedPaths == {fdtab[fh].path : fh \in wfds \cap DOMAIN fdtab}

\* Sessions through two paths have two entries of the ghost table.
SeparateGhosts ==
    \A p, q \in TrackedPaths :
        p # q => /\ GhostKey(p) \in DOMAIN ghosts
                 /\ GhostKey(q) \in DOMAIN ghosts
                 /\ GhostKey(p) # GhostKey(q)

\* The request served by the step is a truncate, or a write that takes the
\* same-data path, through a path that has a ghost.
BufferedStep ==
    /\ ret'.op \in {"truncate", "write"}
    /\ GhostKey(ret'.path) \in DOMAIN ghosts
    /\ ret'.op = "write" => TakesSameDataPath(Disk, ret'.arg.buf, ret'.arg.offset)

OthersUntouched ==
    BufferedStep =>
        \A k \in DOMAIN ghosts \ {GhostKey(ret'.path)} :
            k \in DOMAIN ghosts' /\ ghosts'[k] = ghosts[k]

(* C11: ghost-table identity.  Write-opens through two different virtual    *)
(* paths of the same physical file make two distinct entries of the ghost   *)
(* table, and a truncate or a same-data write through one of them leaves    *)
(* the filesize and the rewritten intervals of the other as they were.      *)
C11_GhostIdentity == []SeparateGhosts /\ [][OthersUntouched]_vars

\* A truncate or same-data write through /_s/_a/x has been served while /_s/x
\* has a ghost too, and the two ghosts differ.
C11_Witness ==
    /\ ret.op \in {"truncate", "write"} /\ ret.path = TaggedPath /\ ret.err = ""
    /\ {PlainPath, TaggedPath} \subseteq TrackedPaths
    /\ Cardinality(DOMAIN ghosts) = 2
    /\ ghosts[GhostKey(TaggedPath)] # ghosts[GhostKey(PlainPath)]

\* What C12 says of one step: the release of the last tracked descriptor.
LastCommitStep ==
    (ret'.op = "release" /\ ret'.arg # <<>> /\ Cardinality(wfds) = 1) =>
        fs'[ObjectKey].bytes =
            GhostRead(ret'.arg[1], Disk, ret'.arg[1].filesize, 0).data

(* C12: last committer wins.  When two write sessions through different     *)
(* paths of the same physical file are interleaved in any order and both    *)
(* descriptors are released, the content of the physical file in the end is *)
(* the view the session released last got from read over [0, filesize)      *)
(* right before its release.                                                *)
C12_LastCommitterWins == [][LastCommitStep]_vars

----------------------------------------------------------------------------
(* What the claims about PathInfo speak of *)

\* How many of the four kinds the PathInfo pi has.
KindsOf(pi) ==
    Cardinality({i \in 1..4 :
        <<is_standard_object(pi), is_entrypoint(pi), is_tag(pi), is_tagged_object(pi)>>[i]})

(* C13: classification exclusivity.  For every path given to PathInfo,     *)
(* exactly one of is_standard_object, is_entrypoint, is_tag and            *)
(* is_tagged_object is true, and the assertion that ends the constructor   *)
(* holds.                                                                  *)
C13_ClassificationExclusive ==
    ret.op = "PathInfo" => (KindsOf(ret.res) = 1 /\ ret.assert)

\* PathInfo has classified a tagged object below a chain of two tags.
C13_Witness ==
    /\ ret.op = "PathInfo"
    /\ is_tagged_object(ret.res)
    /\ Len(ret.res.tags) = 2


RECURSIVE TrailingSemantic(_)
\* How many semantic components end the list c.
TrailingSemantic(c) ==
    IF c = <<>> \/ ~is_semantic_name(Last(c)) THEN 0
    ELSE 1 + TrailingSemantic(Front(c))

\* The rule for a list c that ends with a semantic component: with k the
\* place of the last component that is not semantic, the entry point is c up
\* to the component after k and the chain is the rest.
RuleOver(c) ==
    [entrypoint |-> SubSeq(c, 1, Len(c) - TrailingSemantic(c) + 1),
     tag_chain |-> SubSeq(c, Len(c) - TrailingSemantic(c) + 2, Len(c))]

\* The reference rule on the components c of a normalized absolute path.
ReferenceRule(c) ==
    IF is_semantic_name(Last(c))
    THEN [entrypoint |-> RuleOver(c).entrypoint,
          tag_chain |-> RuleOver(c).tag_chain,
          object_name |-> E,
          kind |-> IF RuleOver(c).tag_chain # <<>> THEN "tag" ELSE "entrypoint"]
    ELSE IF is_semantic_name(c[Len(c) - 1])
    THEN [entrypoint |-> RuleOver(Front(c)).entrypoint,
          tag_chain |-> RuleOver(Front(c)).tag_chain,
          object_name |-> Last(c),
          kind |-> "tagged-object"]
    ELSE [entrypoint |-> <<E>>, tag_chain |-> <<>>, object_name |-> E,
          kind |-> "standard-object"]

\* What a PathInfo answers, in the words of the rule.
Extracted(pi) ==
    [entrypoint |-> pi.entrypoint,
     tag_chain |-> pi.tags,
     object_name |-> pi.tagged_object,
     kind |-> CASE is_tag(pi) -> "tag"
                [] is_entrypoint(pi) -> "entrypoint"
                [] is_tagged_object(pi) -> "tagged-object"
                [] OTHER -> "standard-object"]

(* C14: PathInfo extraction follows the reference rule.  For every         *)
(* absolute path, with c0..cn the components of its normalized form:  if   *)
(* cn is semantic and k is the largest index of a component that is not,   *)
(* the entry point is c0..c(k+1), the tag chain c(k+2)..cn, the object     *)
(* name empty and the kind tag when the chain is non-empty, entrypoint     *)
(* otherwise; else if c(n-1) is semantic the same rule over c0..c(n-1)     *)
(* gives entry point and chain, the object name is cn and the kind         *)
(* tagged-object; otherwise the kind is standard-object with empty entry   *)
(* point, chain and object name.                                           *)
C14_ExtractionRule ==
    (ret.op = "PathInfo" /\ IsAbs(vpath))
        => Extracted(ret.res) = ReferenceRule(Normpath(vpath))

\* PathInfo has taken apart a tagged object whose entry point lies below a
\* standard directory and whose chain has one tag.
C14_Witness ==
    /\ ret.op = "PathInfo"
    /\ IsAbs(vpath)
    /\ Normpath(vpath) = vpath
    /\ ~is_semantic_name(vpath[2])
    /\ Len(ret.res.entrypoint) = 3
    /\ Len(ret.res.tags) = 1
    /\ ret.res.tagged_object # E

----------------------------------------------------------------------------
(* What the claims about the listings speak of *)

\* readdir has been served for the tag t = path[3] directly under the entry
\* point path[2], and t is a node of the graph stored there.
TagListed ==
    /\ ret.op = "readdir"
    /\ Len(ret.path) = 3
    /\ is_tag(PathInfo(ret.path))
    /\ <<ret.path[2]>> \in EntryKeys(fs)
    /\ ret.path[3] \in NodesAt(fs, <<ret.path[2]>>)

\* out_arcs(t) in the graph stored in the directory k.
OutArcsAt(f, k, t) == f[Append(k, SEMANTIC_FS_GRAPH_FILE_NAME)].val.items[1][t]

\* tagged_files([t]) in the FileTagMap stored in the directory k.
TaggedFilesAt(f, k, t) ==
    {name \in DOMAIN FileTagMapAt(f, k) : t \in FileTagMapAt(f, k)[name]}

\* The names of the two reserved files, in any letter case.
Reserved(name) == LowerName(name) \in {LowerName(n) : n \in ReservedNames}

\* out_arcs(t) union tagged_files([t]) minus the reserved names.
ArcsAndFiles(f, k, t) ==
    {name \in OutArcsAt(f, k, t) \cup TaggedFilesAt(f, k, t) : ~Reserved(name)}

\* What a readdir yields besides '.' and '..'.
Listed == ret.val \ {DOT, DOTDOT}

\* C15 as stated: readdir(/E/t) yields, besides '.' and '..', exactly
\* out_arcs(t) union tagged_files([t]) minus the reserved names.
C15_ListingIsArcsAndFiles ==
    TagListed =>
        /\ ret.err = ""
        /\ {DOT, DOTDOT} \subseteq ret.val
        /\ Listed = ArcsAndFiles(fs, <<ret.path[2]>>, ret.path[3])

(* C15, amended: graph-listing consistency.  For every entry point E and    *)
(* tag t that is a node of E's graph, a readdir of the directory /E/t       *)
(* yields, besides '.' and '..', exactly out_arcs(t) union                  *)
(* tagged_files([t]) minus the reserved names and minus t itself, after     *)
(* any sequence of requests.                                                *)
C15_ListingWithoutItself ==
    TagListed =>
        /\ ret.err = ""
        /\ {DOT, DOTDOT} \subseteq ret.val
        /\ Listed = ArcsAndFiles(fs, <<ret.path[2]>>, ret.path[3]) \ {ret.path[3]}

\* The listing of a tag that has an arc to another tag and a tagged file.
C15_Witness ==
    /\ TagListed
    /\ \E name \in Listed : is_semantic_name(name)
    /\ \E name \in Listed : ~is_semantic_name(name)


\* The tag chain of the path a readdir was served for.
ListedChain == Range(PathInfo(ret.path).tags)

(* C16: traversal suppression.  For every tag path /E/t1/.../tn, readdir    *)
(* never yields a name equal to one of t1..tn, whatever arcs the tag graph  *)
(* of E contains (cycles and self-loops included).                          *)
C16_TraversalSuppression ==
    (ret.op = "readdir" /\ is_tag(PathInfo(ret.path))) =>
        ret.val \cap ListedChain = {}

\* The listing of /E/t1/t2 in a graph where t2 has an arc back to t1 or to
\* itself.
C16_Witness ==
    /\ ret.op = "readdir"
    /\ ret.err = ""
    /\ Len(ret.path) = 4
    /\ is_tag(PathInfo(ret.path))
    /\ OutArcsAt(fs, <<ret.path[2]>>, ret.path[4]) \cap ListedChain # {}


(* C17: reserved-name suppression.  In every reachable state, readdir of    *)
(* any directory (standard, entry point or tag) never yields the name of    *)
(* the graph file or of the association file, and getattr on any path       *)
(* whose last component is one of those names, in any letter case, fails    *)
(* instead of returning attributes.                                         *)
C17_ReservedSuppressed ==
    /\ ret.op = "readdir" => \A name \in ret.val : ~Reserved(name)
    /\ (ret.op = "getattr" /\ Reserved(Last(ret.path))) => ret.err # ""

\* The listing of an entry point whose physical directory holds the two
\* reserved files beside a tag and an object.
C17_Witness ==
    /\ ret.op = "readdir"
    /\ ret.err = ""
    /\ is_entrypoint(PathInfo(ret.path))
    /\ {SEMANTIC_FS_GRAPH_FILE_NAME, SEMANTIC_FS_ASSOC_FILE_NAME}
           \subseteq Listdir(fs, DsKey(ret.path))
    /\ Cardinality(Listed) >= 2

----------------------------------------------------------------------------
(* What the claim about the reserved names speaks of *)

\* The operations that take a path to act on.
PathOperations == {"mkdir", "rmdir", "unlink", "mknod", "create", "open", "truncate"}

\* The request served names a reserved file: by its path, or as the new name
\* of a rename.
NamesReserved(r) ==
    \/ r.op \in PathOperations /\ Reserved(Last(r.path))
    \/ r.op = "rename" /\ Reserved(Last(r.new))

\* A call with a reserved name is refused with EINVAL, the datastore and the
\* open descriptors as they were.
RefusedStep ==
    NamesReserved(ret') =>
        /\ ret'.err = "EINVAL"
        /\ fs' = fs
        /\ fdtab' = fdtab

(* C18: reserved names are rejected as a pre-check by every operation.      *)
(* mkdir, rmdir, unlink, mknod, create, open, truncate and rename called    *)
(* with a path inside an entry point whose last component is the name of a  *)
(* reserved file fail with EINVAL before any call to the host file system   *)
(* is made on the file.                                                     *)
C18_ReservedRejected == [][RefusedStep]_vars

----------------------------------------------------------------------------
(* What the claims about rmdir of a tag speak of *)

\* rmdir has been served without error for a tag path whose chain has n tags,
\* in an entry point whose metadata loaded before the request.
TagRemoved(n) ==
    /\ ret'.op = "rmdir"
    /\ ret'.err = ""
    /\ is_tag(PathInfo(ret'.path))
    /\ Len(PathInfo(ret'.path).tags) = n
    /\ DsKey(PathInfo(ret'.path).entrypoint) \in EntryKeys(fs)

\* The tag at the root of the entry point k is gone after the step: its
\* directory, its node, and its place in the tagset of every file that had
\* it; those files are still keys and still lie in k.
TagGone(k, t) ==
    /\ ~Lexists(fs', Append(k, t))
    /\ k \in EntryKeys(fs')
    /\ t \notin NodesAt(fs', k)
    /\ \A name \in TaggedFilesAt(fs, k, t) :
          /\ name \in DOMAIN FileTagMapAt(fs', k)
          /\ t \notin FileTagMapAt(fs', k)[name]
          /\ Lexists(fs', Append(k, name))

RmdirRootTagStep ==
    TagRemoved(1) =>
        TagGone(DsKey(PathInfo(ret'.path).entrypoint), Last(PathInfo(ret'.path).tags))

(* C19: rmdir of a tag directly under the entry point (chain length 1)      *)
(* removes the physical tag directory, removes the graph node, and removes  *)
(* that tag from the tagset of every file that had it, while every such     *)
(* file stays a key of the FileTagMap and stays physically under the entry  *)
(* point.                                                                   *)
C19_RmdirRootTag == [][RmdirRootTagStep]_vars


\* The graph stored in the directory k of the datastore f.
GraphAt(f, k) ==
    [out |-> f[Append(k, SEMANTIC_FS_GRAPH_FILE_NAME)].val.items[1],
     in |-> f[Append(k, SEMANTIC_FS_GRAPH_FILE_NAME)].val.items[2]]

\* The graph g without the arc from -> to, its nodes and other arcs kept.
MinusArc(g, from, to) ==
    [out |-> [g.out EXCEPT ![from] = @ \ {to}],
     in |-> [g.in EXCEPT ![to] = @ \ {from}]]

\* The step took the arc from -> to out of the graph stored in k and left the
\* rest of the datastore as it was: the tagsets, the directories, the files.
OnlyArcGone(k, from, to) ==
    /\ to \in GraphAt(fs, k).out[from]
    /\ k \in EntryKeys(fs')
    /\ GraphAt(fs', k) = MinusArc(GraphAt(fs, k), from, to)
    /\ FileTagMapAt(fs', k) = FileTagMapAt(fs, k)
    /\ DOMAIN fs' = DOMAIN fs
    /\ \A key \in DOMAIN fs :
          key # Append(k, SEMANTIC_FS_GRAPH_FILE_NAME) => fs'[key] = fs[key]

RmdirInnerTagStep ==
    \A n \in 2..MaxDepth :
        TagRemoved(n) =>
            OnlyArcGone(DsKey(PathInfo(ret'.path).entrypoint),
                        PathInfo(ret'.path).tags[n - 1], PathInfo(ret'.path).tags[n])

----------------------------------------------------------------------------
(* What the claims about unlink, mkdir and rename speak of *)

\* The request op has been served without error for the path of a tagged
\* object, in an entry point whose metadata loaded before the request.
ServedTagged(op) ==
    /\ ret'.op = op
    /\ ret'.err = ""
    /\ is_tagged_object(PathInfo(ret'.path))
    /\ DsKey(PathInfo(ret'.path).entrypoint) \in EntryKeys(fs)

\* The step left every inode but the two reserved files of k as it was.
SameInodes(k) ==
    /\ DOMAIN fs' = DOMAIN fs
    /\ \A key \in DOMAIN fs :
          key \notin {Append(k, SEMANTIC_FS_GRAPH_FILE_NAME),
                      Append(k, SEMANTIC_FS_ASSOC_FILE_NAME)} => fs'[key] = fs[key]

\* The step took the tag t from the tagset of name in k, and nothing else
\* changed; name is still found directly in the entry point.
OnlyTagGone(pathinfo, k, name, t) ==
    /\ name \in DOMAIN FileTagMapAt(fs, k)
    /\ k \in EntryKeys(fs')
    /\ FileTagMapAt(fs', k) = [FileTagMapAt(fs, k) EXCEPT ![name] = @ \ {t}]
    /\ GraphAt(fs', k) = GraphAt(fs, k)
    /\ SameInodes(k)
    /\ Exists(fs', Append(pathinfo.entrypoint, name)) = [val |-> TRUE, err |-> ""]

\* The step removed the inode of name in k and its key.
FileGone(k, name) ==
    /\ ~Lexists(fs', Append(k, name))
    /\ k \in EntryKeys(fs')
    /\ name \notin DOMAIN FileTagMapAt(fs', k)

UnlinkEffect(pathinfo, k) ==
    IF pathinfo.tags # <<>>
    THEN OnlyTagGone(pathinfo, k, pathinfo.tagged_object, Last(pathinfo.tags))
    ELSE FileGone(k, pathinfo.tagged_object)

UnlinkStep ==
    ServedTagged("unlink") =>
        UnlinkEffect(PathInfo(ret'.path), DsKey(PathInfo(ret'.path).entrypoint))

(* C21: unlink of a tagged file through a non-empty tag chain removes only  *)
(* the last tag of the chain from that file's tagset: the physical inode,   *)
(* the file's other tags, every other file's tagset and the tag graph are   *)
(* unchanged, and the file stays reachable at /E/f; only unlink through the *)
(* empty chain removes the physical file and its FileTagMap key.            *)
C21_UnlinkLastTag == [][UnlinkStep]_vars

\* unlink has been served through a tag: the file is still a key and still
\* lies in the entry point, without the tag but with another one.
C21_Witness ==
    /\ ret.op = "unlink"
    /\ ret.err = ""
    /\ Len(ret.path) = 4
    /\ <<ret.path[2]>> \in EntryKeys(fs)
    /\ ret.path[4] \in DOMAIN FileTagMapAt(fs, <<ret.path[2]>>)
    /\ ret.path[3] \notin FileTagMapAt(fs, <<ret.path[2]>>)[ret.path[4]]
    /\ FileTagMapAt(fs, <<ret.path[2]>>)[ret.path[4]] # {}
    /\ IsFile(fs, <<ret.path[2], ret.path[4]>>)


\* The graph g with the node t, which it lacked.
PlusNode(g, t) == [out |-> Put(g.out, t, {}), in |-> Put(g.in, t, {})]

\* The graph g with the arc from -> to.
PlusArc(g, from, to) ==
    [out |-> [g.out EXCEPT ![from] = @ \cup {to}],
     in |-> [g.in EXCEPT ![to] = @ \cup {from}]]

\* mkdir has been served without error for a tag path whose chain has n tags.
TagMade(n) ==
    /\ ret'.op = "mkdir"
    /\ ret'.err = ""
    /\ is_tag(PathInfo(ret'.path))
    /\ Len(PathInfo(ret'.path).tags) = n
    /\ DsKey(PathInfo(ret'.path).entrypoint) \in EntryKeys(fs)

\* The step made the node t, its directory in k and the arc p -> t; the tag is
\* found at the path of the request and directly under the entry point.
NewTagBelow(pathinfo, k, p, t) ==
    /\ ~Lexists(fs, Append(k, t))
    /\ IsDir(fs', Append(k, t))
    /\ DOMAIN fs' = DOMAIN fs \cup {Append(k, t)}
    /\ k \in EntryKeys(fs')
    /\ GraphAt(fs', k) = PlusArc(PlusNode(GraphAt(fs, k), t), p, t)
    /\ Exists(fs', pathinfo.path) = [val |-> TRUE, err |-> ""]
    /\ Exists(fs', Append(pathinfo.entrypoint, t)) = [val |-> TRUE, err |-> ""]

\* The step added the arc p -> t and nothing else.
OnlyArcAdded(k, p, t) ==
    /\ k \in EntryKeys(fs')
    /\ GraphAt(fs', k) = PlusArc(GraphAt(fs, k), p, t)
    /\ FileTagMapAt(fs', k) = FileTagMapAt(fs, k)
    /\ SameInodes(k)

MkdirBelowEffect(pathinfo, k, p, t) ==
    IF t \notin NodesAt(fs, k) THEN NewTagBelow(pathinfo, k, p, t)
    ELSE OnlyArcAdded(k, p, t)

MkdirInnerTagStep ==
    \A n \in 2..MaxDepth :
        TagMade(n) =>
            MkdirBelowEffect(PathInfo(ret'.path), DsKey(PathInfo(ret'.path).entrypoint),
                             PathInfo(ret'.path).tags[n - 1], PathInfo(ret'.path).tags[n])

(* C22: mkdir of a tag under another tag (/E/.../p/t with t not yet a node) *)
(* creates the node t, its physical directory directly under the entry      *)
(* point and the arc p -> t, so that afterwards t exists both at            *)
(* /E/.../p/t and directly at /E/t; when t is already a node only the arc   *)
(* p -> t is added and no physical directory is created.                    *)
C22_MkdirInnerTag == [][MkdirInnerTagStep]_vars

\* mkdir of /E/p/t has been served: t is a node with a directory in the
\* entry point and the arc p -> t is in the graph.
C22_Witness ==
    /\ ret.op = "mkdir"
    /\ ret.err = ""
    /\ is_tag(PathInfo(ret.path))
    /\ Len(ret.path) = 4
    /\ <<ret.path[2]>> \in EntryKeys(fs)
    /\ IsDir(fs, <<ret.path[2], ret.path[4]>>)
    /\ ret.path[4] \in OutArcsAt(fs, <<ret.path[2]>>, ret.path[3])


\* mkdir has been served for a path that existed: a tag directly under the
\* entry point, or a tagged directory found at its tag path.
MkdirOfExisting ==
    /\ ret'.op = "mkdir"
    /\ Exists(fs, ret'.path) = [val |-> TRUE, err |-> ""]
    /\ \/ is_tag(PathInfo(ret'.path)) /\ Len(PathInfo(ret'.path).tags) = 1
       \/ is_tagged_object(PathInfo(ret'.path)) /\ IsDir(fs, DsKey(ret'.path))

ExistingRefusedStep == MkdirOfExisting => (ret'.err = "EEXIST" /\ fs' = fs)

(* C23: mkdir of a tag directly under the entry point fails with EEXIST     *)
(* when that tag already exists, and mkdir of a tagged directory that       *)
(* already exists at that tag path fails with EEXIST; in both cases the     *)
(* metadata and the physical tree are unchanged.                            *)
C23_MkdirExisting == [][ExistingRefusedStep]_vars


\* rename has been served with one path for old and new.
SelfRenameStep ==
    (ret'.op = "rename" /\ ret'.path = ret'.new) => (ret'.err = "" /\ fs' = fs)

(* C25: renaming a path to itself is a no-op.  rename(p, p) returns without *)
(* error and leaves the physical tree and all metadata unchanged, for a     *)
(* path p of every kind.                                                    *)
C25_RenameToItself == [][SelfRenameStep]_vars


\* rename has been served for a new path that existed by _exists.
RenameOntoExisting ==
    /\ ret'.op = "rename"
    /\ ret'.path # ret'.new
    /\ Exists(fs, ret'.new) = [val |-> TRUE, err |-> ""]

DestinationRefusedStep ==
    RenameOntoExisting =>
        /\ ret'.err = "EEXIST"
        /\ fs' = fs
        /\ ghosts' = ghosts /\ counts' = counts /\ wfds' = wfds

(* C24: rename refuses an existing destination.  For every old and new      *)
(* with new existing according to the full semantic existence predicate,    *)
(* rename(old, new) fails with EEXIST and changes neither the physical      *)
(* tree, nor any SemanticFolder, nor the ghost table.                       *)
C24_RenameRefusesExisting == [][DestinationRefusedStep]_vars

\* rename onto a tagged object that exists has been refused: the object is
\* found at the new path, through its tag, and old is still found.
C24_Witness ==
    /\ ret.op = "rename"
    /\ ret.err = "EEXIST"
    /\ is_tagged_object(PathInfo(ret.new))
    /\ Len(PathInfo(ret.new).tags) = 1
    /\ Exists(fs, ret.new).val
    /\ Exists(fs, ret.path).val

----------------------------------------------------------------------------
(* What the claim about moving a standard directory speaks of *)

\* The request served is the rename of a standard directory to the path of a
\* tagged object, under one tag at least, that does not exist.
StandardDirToTagged ==
    /\ ret'.op = "rename"
    /\ is_standard_object(PathInfo(ret'.path))
    /\ IsDir(fs, DsKey(ret'.path))
    /\ is_tagged_object(PathInfo(ret'.new))
    /\ Len(PathInfo(ret'.new).tags) >= 1
    /\ Exists(fs, ret'.new) = [val |-> FALSE, err |-> ""]

\* The directory lies under the entry point of new, no longer at old, and the
\* entry point's association holds its name with the tags of new.
MovedAndTagged(old, new) ==
    /\ ~Lexists(fs', DsKey(old.path))
    /\ IsDir(fs', DsKey(new.path))
    /\ GetSemanticFolder(fs', new.entrypoint).err = ""
    /\ new.tagged_object \in DOMAIN GetSemanticFolder(fs', new.entrypoint).sf.files
    /\ GetSemanticFolder(fs', new.entrypoint).sf.files[new.tagged_object] = Range(new.tags)

StandardDirMovedStep ==
    StandardDirToTagged =>
        /\ ret'.err = ""
        /\ MovedAndTagged(PathInfo(ret'.path), PathInfo(ret'.new))

\* C26: rename of a standard directory to a tagged-object destination that
\* does not exist moves the directory to the entry point's physical directory
\* and adds its name to the entry point's association with the destination's
\* tags, as for a standard file.
C26_StandardDirToTagged == [][StandardDirMovedStep]_vars

----------------------------------------------------------------------------
(* What the claim about the order of the physical and the persisted speaks of *)

\* The dispatcher operations that mutate the host filesystem and persist a
\* SemanticFolder.
PersistingOperations == {"mkdir", "rmdir", "unlink", "mknod", "create", "rename"}

\* The errno values with which the calls of os and shutil fail.
HostErrors == {"ENOENT", "EEXIST", "ENOTDIR", "EISDIR", "ENOTEMPTY", "EINVAL", "EBUSY"}

\* The persisted metadata of the datastore f: its graph and association files.
PersistedIn(f) ==
    [k \in {d \in DOMAIN f : d # <<>> /\ Last(d) \in {SEMANTIC_FS_GRAPH_FILE_NAME,
                                                        SEMANTIC_FS_ASSOC_FILE_NAME}} |-> f[k]]

\* An operation that replies with the error of a host call persisted nothing:
\* a persist comes only after the physical mutations have succeeded.
PhysicalFirstStep ==
    (ret'.op \in PersistingOperations /\ ret'.err \in HostErrors) =>
        PersistedIn(fs') = PersistedIn(fs)

\* C27: in every dispatcher operation that mutates the host filesystem and
\* persists a SemanticFolder, each persist happens after the physical
\* mutations of the operation have succeeded, and when a physical mutation
\* fails the persisted metadata is left as it was before the operation.
C27_PhysicalBeforeMetadata == [][PhysicalFirstStep]_vars

\* os.mkdir of a tag directory has failed, the name being taken by a file that
\* is no tag, and the graph stored holds no node of that name.
C27_Witness ==
    /\ ret.op = "mkdir"
    /\ ret.err = "EEXIST"
    /\ is_tag(PathInfo(ret.path))
    /\ Last(PathInfo(ret.path).tags) \notin Range(Front(PathInfo(ret.path).tags))
    /\ IsFile(fs, DsKey(ret.path))
    /\ ~has_node(GraphAt(fs, DsKey(PathInfo(ret.path).entrypoint)),
                 Last(PathInfo(ret.path).tags)).val

----------------------------------------------------------------------------
(* What the claims about the methods of Graph speak of *)

\* has_arc returned False, no assertion failing.
NoArc == [val |-> FALSE, err |-> ""]

\* In the graph g no arc joins n and another node, whichever way has_arc is asked.
NoArcsWith(g, n) ==
    \A m \in DOMAIN g.out \ {n} : has_arc(g, n, m) = NoArc /\ has_arc(g, m, n) = NoArc

\* add_node(n) gave a: it returned, and has_arc knows of no arc with n.
AddedWithoutArcs(a, n) == a.err = "" /\ NoArcsWith(a.g, n)

\* remove_node(n) has returned on a graph where n had an arc with another node.
RemovedWithArcs ==
    /\ ret'.op = "remove_node"
    /\ ret'.err = ""
    /\ (semfolder.graph.out[ret'.from] \cup semfolder.graph.in[ret'.from]) \ {ret'.from} # {}

RemoveNodeStep ==
    RemovedWithArcs => AddedWithoutArcs(add_node(semfolder'.graph, ret'.from), ret'.from)

\* C28: after remove_node(n) on a graph where n had incoming or outgoing
\* arcs, followed by add_node(n), has_arc(n, m) and has_arc(m, n) return
\* False for every other node m, and has_arc evaluates without an assertion
\* failure.
C28_RemoveNodeRemovesArcs == [][RemoveNodeStep]_vars

\* The name a node bears after rename_node(old, new).
Renamed(name, old, new) == IF name = old THEN new ELSE name

\* rename_node(old, new) has returned.
NodeRenamed == ret'.op = "rename_node" /\ ret'.err = ""

\* has_arc answers for the renamed nodes after the call what it answered for
\* the nodes before it.
ArcsCarriedOver(g, h, old, new) ==
    \A a \in DOMAIN g.out, b \in DOMAIN g.out :
        has_arc(h, Renamed(a, old, new), Renamed(b, old, new)) = has_arc(g, a, b)

RenameNodeStep ==
    NodeRenamed => ArcsCarriedOver(semfolder.graph, semfolder'.graph, ret'.from, ret'.to)

\* C29: rename_node(old, new) propagates to the incident arcs and to nothing
\* else: for all nodes a and b, has_arc(r(a), r(b)) after the call equals
\* has_arc(a, b) before it, r mapping old to new and every other name to
\* itself; no arc to or from new appears between nodes that had no arc with
\* old.
C29_RenameNodeCarriesArcs == [][RenameNodeStep]_vars

----------------------------------------------------------------------------
(* What the claim about renaming a tag speaks of *)

\* The request served renamed a tag directory: old and new are tags of one
\* entry point under the same chain, and their last tags differ.
TagRenamed ==
    /\ ret'.op = "rename"
    /\ ret'.err = ""
    /\ is_tag(PathInfo(ret'.path))
    /\ is_tag(PathInfo(ret'.new))
    /\ PathInfo(ret'.path).entrypoint = PathInfo(ret'.new).entrypoint
    /\ Front(PathInfo(ret'.path).tags) = Front(PathInfo(ret'.new).tags)
    /\ Last(PathInfo(ret'.path).tags) # Last(PathInfo(ret'.new).tags)

\* The tagset tags with t replaced by t2 where it holds t, as it was where not.
Replaced(tags, t, t2) == IF t \in tags THEN (tags \ {t}) \cup {t2} ELSE tags

\* The association stored in k holds after the step, for every file, the
\* tagset it held before with t replaced by t2.
TagReplaced(k, t, t2) ==
    /\ DOMAIN FileTagMapAt(fs', k) = DOMAIN FileTagMapAt(fs, k)
    /\ \A name \in DOMAIN FileTagMapAt(fs, k) :
          FileTagMapAt(fs', k)[name] = Replaced(FileTagMapAt(fs, k)[name], t, t2)

RenameTagStep ==
    TagRenamed =>
        TagReplaced(DsKey(PathInfo(ret'.path).entrypoint),
                    Last(PathInfo(ret'.path).tags), Last(PathInfo(ret'.new).tags))

\* C30: rename_tag(t, t2) replaces t by t2 in the tagset of every file that
\* contains t and leaves the tagset of every file that does not contain t as
\* it was; renaming a tag directory through the dispatcher does not make
\* files that lacked the old tag appear under the new tag.
C30_RenameTagReplaces == [][RenameTagStep]_vars

----------------------------------------------------------------------------
(* What the claim about relative paths speaks of *)

\* The exception the constructor ended with, "" when it produced its object:
\* the assertion on the kinds is the one statement of __init__ that raises.
ConstructorRaised(r) == IF r.assert THEN "" ELSE "AssertionError"

\* C31: constructing a PathInfo from a relative path or from the empty path
\* is a ValueError; no PathInfo object is produced for such an input.
C31_RelativePathRejected ==
    (ret.op = "PathInfo" /\ ~IsAbs(vpath)) => ConstructorRaised(ret) = "ValueError"

----------------------------------------------------------------------------
(* What the claim about the first scenario speaks of *)

\* The datastore after mkdir /_s; mkdir /_s/_a; mkdir /_s/_a/_b on an empty
\* datastore.
AfterScenario1 ==
    Mkdir(Mkdir(Mkdir(EmptyFs, <<E, EntryName>>).fs,
                <<E, EntryName, <<"_", "a">>>>).fs,
          <<E, EntryName, <<"_", "a">>, <<"_", "b">>>>).fs

----------------------------------------------------------------------------
(* What the claims about the intervals of a GhostFile speak of *)

\* The intervals of the tree are half-open ranges within the file, no two of
\* them overlapping or touching.
WellFormedTree(tree, filesize) ==
    /\ \A iv \in tree : 0 <= iv[1] /\ iv[1] < iv[2] /\ iv[2] <= filesize
    /\ \A iv \in tree, jv \in tree : iv # jv => (iv[2] < jv[1] \/ jv[2] < iv[1])

\* No point of the file lies in two intervals: what the assertion of
\* _optimized_add_to_intervaltree relies on.
OneIntervalAt(tree, filesize) ==
    \A p \in -1..filesize : Cardinality(TreeAt(tree, p)) <= 1

\* C33: in every state reachable by truncate, write and apply the rewritten
\* intervals of a GhostFile are pairwise disjoint, non-adjacent half-open
\* ranges with 0 <= begin < end <= filesize, so that at most one interval
\* contains start - 1 and at most one contains end when a range is added.
C33_IntervalsWellFormed ==
    \A k \in DOMAIN ghosts :
        /\ WellFormedTree(ghosts[k].tree, ghosts[k].filesize)
        /\ OneIntervalAt(ghosts[k].tree, ghosts[k].filesize)

\* A ghost with two intervals and a hole between them, after a write.
C33_Witness ==
    /\ ret.op = "write"
    /\ ret.err = ""
    /\ \E k \in DOMAIN ghosts : Cardinality(ghosts[k].tree) = 2


\* The request served is a write through a GhostFile that took the same-data
\* path: the buffer lies within the physical file and equals its bytes there.
SameDataWrite ==
    /\ ret'.op = "write"
    /\ ret'.fh \in DOMAIN fdtab
    /\ HasGhostFile(World, ret'.path) = [val |-> TRUE, err |-> ""]
    /\ TakesSameDataPath(BytesAt(World, fdtab[ret'.fh].key), ret'.arg.buf, ret'.arg.offset)

\* The write returned, the size of the ghost being the end of its intervals.
SizeIsTreeEnd(g) == g.filesize = TreeEnd(g.tree)

SameDataStep ==
    SameDataWrite =>
        /\ ret'.err = ""
        /\ SizeIsTreeEnd(ghosts'[GhostKey(ret'.path)])

\* C34: whenever write takes the same-data path, from every reachable prior
\* state of the GhostFile (also after a truncate to a length beyond the end
\* of the recorded intervals), its assertion holds: on return filesize
\* equals the maximum end of the rewritten intervals.
C34_SameDataAssertion == [][SameDataStep]_vars


\* The byte the physical file holds at position p; -1 where it holds none.
PhysicalByte(bytes, p) == IF p < Len(bytes) THEN bytes[p + 1] ELSE -1

\* The byte a reader of the ghost g is owed for position p: the physical byte
\* inside a rewritten interval, zero outside.
GhostByte(g, bytes, p) == IF TreeAt(g.tree, p) # {} THEN PhysicalByte(bytes, p) ELSE 0

\* What read(length, offset) of the ghost g over the physical bytes returns.
ExpectedRead(g, bytes, length, offset) ==
    IF offset >= g.filesize \/ length = 0 THEN <<>>
    ELSE [i \in 1..Min(length, g.filesize - offset) |-> GhostByte(g, bytes, offset + i - 1)]

\* The request served last is a read through a GhostFile.
GhostWasRead ==
    /\ ret.op = "read"
    /\ ret.fh \in DOMAIN fdtab
    /\ HasGhostFile(World, ret.path) = [val |-> TRUE, err |-> ""]

\* C35: GhostFile.read(length, offset), the physical file being changed by no
\* other session, returns the empty string when offset >= filesize or
\* length = 0, and otherwise exactly min(length, filesize - offset) bytes,
\* the byte for position p being the physical byte at p when p lies in a
\* rewritten interval and zero otherwise.
C35_GhostRead ==
    GhostWasRead =>
        /\ ret.err = ""
        /\ ret.val = ExpectedRead(ghosts[GhostKey(ret.path)],
                                  BytesAt(World, fdtab[ret.fh].key),
                                  ret.arg.length, ret.arg.offset)

\* A read across a hole: the ghost has grown past its one interval, and the
\* read returns a physical byte followed by a zero of the hole.
C35_Witness ==
    /\ GhostWasRead
    /\ ret.err = ""
    /\ Len(ret.val) >= 2
    /\ ghosts[GhostKey(ret.path)].filesize > TreeEnd(ghosts[GhostKey(ret.path)].tree)
    /\ ghosts[GhostKey(ret.path)].tree # {}
    /\ ret.arg.offset < TreeEnd(ghosts[GhostKey(ret.path)].tree)
    /\ ret.arg.offset + Len(ret.val) > TreeEnd(ghosts[GhostKey(ret.path)].tree)

----------------------------------------------------------------------------
(* What the claim about the accounting of the ghost table speaks of *)

\* The write descriptors that are tracked and open through the key k.
OpenThrough(k) == {fh \in wfds : fh \in DOMAIN fdtab /\ GhostKey(fdtab[fh].path) = k}

\* C36: after any sequence of open, create and release, a key is in the ghost
\* table if and only if its reference count is present and at least 1, the
\* count of each key is the number of open tracked write descriptors opened
\* through that key, and the ghost table is empty exactly when the set of
\* tracked write descriptors is empty.
C36_GhostAccounting ==
    /\ \A k \in DOMAIN ghosts \cup DOMAIN counts :
          /\ k \in DOMAIN ghosts <=> (k \in DOMAIN counts /\ counts[k] >= 1)
          /\ k \in DOMAIN counts => counts[k] = Cardinality(OpenThrough(k))
    /\ (DOMAIN ghosts = {}) <=> (wfds = {})

\* Two tracked descriptors are open through one key after an open, and a
\* reader is not counted.
C36_Witness ==
    /\ ret.op = "open"
    /\ ret.err = ""
    /\ \E k \in DOMAIN counts : counts[k] = 2 /\ Cardinality(OpenThrough(k)) = 2

----------------------------------------------------------------------------
(* What the claim about the two adjacency dictionaries speaks of *)

\* The two dictionaries of the graph g describe the same arcs.
SameArcs(g) ==
    \A a \in DOMAIN g.out, b \in DOMAIN g.in : (b \in g.out[a]) <=> (a \in g.in[b])

\* Every member of an adjacency set of g is a node of g.
MembersAreNodes(g) ==
    /\ \A a \in DOMAIN g.out : g.out[a] \subseteq DOMAIN g.out
    /\ \A b \in DOMAIN g.in : g.in[b] \subseteq DOMAIN g.in

\* C37: after any sequence of add_node, remove_node, rename_node, add_arc and
\* remove_arc, for all nodes a and b, b is in the outgoing set of a if and
\* only if a is in the incoming set of b, and every member of every adjacency
\* set is an existing node; so the assertion of has_arc never fails and
\* outgoing_arcs never returns a removed tag.
C37_AdjacencyInvariant ==
    /\ DOMAIN semfolder.graph.out = DOMAIN semfolder.graph.in
    /\ SameArcs(semfolder.graph)
    /\ MembersAreNodes(semfolder.graph)

----------------------------------------------------------------------------
(* What the claim about listing and lookup speaks of *)

\* The tag paths of the requests.
TagPaths == {p \in LookupPaths : is_tag(PathInfo(p))}

\* getattr of the name x below the directory D succeeds.
Resolves(D, x) == Getattr(World, Append(D, x)).err = ""

\* readdir of the directory D yields the name x.
Lists(D, x) == Readdir(fs, D).err = "" /\ x \in Readdir(fs, D).val

\* C38: in every reachable state, for every tag path D = /E/t1/.../tn that
\* exists and every name x that is not reserved, getattr(D/x) succeeds if and
\* only if readdir(D) yields x; a tag already traversed in D, or one whose
\* node was removed, is neither listed nor resolvable under D.
C38_ListingAgreesWithLookup ==
    \A D \in TagPaths :
        Found(World, D) => \A x \in LookupNames : Resolves(D, x) <=> Lists(D, x)

----------------------------------------------------------------------------
(* What the claim about rejected creations speaks of *)

\* The request served is mknod or create on the path of an entry point or of
\* a tag.
CreationOfSemanticDir ==
    /\ ret'.op \in {"mknod", "create"}
    /\ is_entrypoint(PathInfo(ret'.path)) \/ is_tag(PathInfo(ret'.path))

RejectedCreationStep ==
    CreationOfSemanticDir =>
        /\ ret'.err = "ENOTSUP"
        /\ fs' = fs
        /\ fdtab' = fdtab

\* C39: mknod or create on a path classified as an entry point or a tag fails
\* with ENOTSUP and leaves the datastore unchanged: no physical inode is
\* created and no host descriptor remains open.
C39_RejectedCreation == [][RejectedCreationStep]_vars

----------------------------------------------------------------------------
(* What the claim about rename and the files of the destination speaks of *)

\* The request served is the rename of a standard file to the path of a
\* tagged object whose entry point holds its two metadata files.
StandardFileToTagged ==
    /\ ret'.op = "rename"
    /\ is_standard_object(PathInfo(ret'.path))
    /\ IsFile(fs, DsKey(ret'.path))
    /\ is_tagged_object(PathInfo(ret'.new))
    /\ DsKey(PathInfo(ret'.new).entrypoint) \in EntryKeys(fs)

\* Every file that is a key of the association stored in k has after the step
\* the inode it had before it.
KeysKeepContent(k) ==
    \A name \in DOMAIN FileTagMapAt(fs, k) :
        Lexists(fs, Append(k, name)) =>
            /\ Lexists(fs', Append(k, name))
            /\ fs'[Append(k, name)] = fs[Append(k, name)]

NoClobberStep ==
    StandardFileToTagged => KeysKeepContent(DsKey(PathInfo(ret'.new).entrypoint))

\* C40: after a rename, successful or failed, of a standard file to a
\* tagged-object destination /E/t1/.../tn/f, every file that was a key of E's
\* FileTagMap before the call, a file named f that lacked some of the tags
\* included, still has the physical content it had before the call.
C40_RenameNeverClobbers == [][NoClobberStep]_vars

====
